---- MODULE Spec2Model ----
(***************************************************************************)
(* State-machine model of the SEO agent web client.                        *)
(*                                                                         *)
(* Three pages are modelled.  Each page loads one script, and the scripts  *)
(* declare the same module-level `websocket` / `sessionId` bindings, so a  *)
(* page runs exactly one of them:                                          *)
(*   page = "app"     the main application (processBatchRequest,           *)
(*                    processRequest, connectWebSocket)                    *)
(*   page = "app_ua"  the Ukrainian version (handleLinkBuilderFormSubmit,  *)
(*                    connectLinkBuilderWebSocket; the chat: sendMessage,  *)
(*                    connectChatWebSocket, clearChat)                     *)
(*   page = "simple"  the simple meta generator (batchForm submit)         *)
(*                                                                         *)
(* An action is one run-to-completion segment of JavaScript: the code      *)
(* between two suspension points of an async function (an `await` on the   *)
(* network, on a timer or on a socket event), or one event handler         *)
(* together with the continuations its resolve()/reject() wake (they run   *)
(* as microtasks before any other task).  An `await` on the promise of     *)
(* connectWebSocket (an async function without any await) likewise resumes *)
(* in a microtask, so it does not end a segment.                           *)
(*                                                                         *)
(* A flow is one invocation of a submit or click handler.  The k-th        *)
(* socket a flow creates and the k-th request it issues are named <<f, k>>.*)
(***************************************************************************)
EXTENDS Integers, Sequences, FiniteSets, TLC

\* ---------------------------------------------------------------- bounds
\* Largest number of items of one batch.
MaxItems == 2
\* Largest number of user actions (submits, test clicks) on a page.
MaxFlows == 2
\* Largest number of POST /process requests the started flows may issue in
\* all, a flow that ends without a request counting as one.
MaxRequests == 2

\* Largest number of lines of a URL list, of a keyword list and of a CSV text.
MaxLines == 2
\* Largest number of tokens of a text given to detectLanguage.
MaxText == 3
\* Largest number of analysed links in currentLinkDetails.
MaxLinks == 2

VARIABLES
    page,                  \* which script the page runs
    websocket,             \* main page: module-level socket handle;
                           \* simple page: the global binding that
                           \* connectWebSocket assigns
    handlerWebsocket,      \* simple page: `let websocket` of the
                           \* DOMContentLoaded callback, read by the handlers
    sessionId,             \* main page: module-level session identifier
    linkBuilderWebSocket,  \* app_ua: module-level link builder socket handle
    linkBuilderSessionId,  \* app_ua: module-level link builder session identifier
    chatSessionId,         \* app_ua: module-level chat session identifier
    chatWebSocket,         \* app_ua: module-level chat socket handle
    sockets,               \* every WebSocket object created so far
    requests,              \* every POST /process issued so far
    flows,                 \* the handler invocations started by user actions
    call                   \* a call of one of the pure functions, with its result

vars == <<page, websocket, handlerWebsocket, sessionId, linkBuilderWebSocket,
          linkBuilderSessionId, chatSessionId, chatWebSocket, sockets,
          requests, flows, call>>

\* The two module-level bindings of the chat.
chatHandles == <<chatSessionId, chatWebSocket>>

Flows == 1..MaxFlows

\* `null` of the module-level handles (let websocket = null; ...).
Null == <<>>

\* ------------------------------------------------------- sockets, sessions

\* Variant of GenerateSessionId: the id is generated once per submission and
\* reused for every item of it.
GenerateSessionIdOnce(f, fl) == <<f, 1>>

\* generateSessionId: 'session_' + a random suffix.  A random draw is modelled
\* as an identifier not drawn before: the pair (flow, number of its draws).
GenerateSessionId(f, fl) == <<f, fl.ids + 1>>

\* new WebSocket(`.../ws/${sessionId}`): a socket in state CONNECTING.
NewSocket(sid) ==
    [url |-> sid, readyState |-> "CONNECTING", closeCalled |-> FALSE]

\* Name of the next socket flow f creates.
NextSocket(f) == <<f, Cardinality({w \in DOMAIN sockets : w[1] = f}) + 1>>

\* connectWebSocket(sessionId): websocket = new WebSocket(wsUrl); the four
\* handlers it installs only log (onmessage updates the progress display).
ConnectWebSocket(f, sid) == sockets @@ (NextSocket(f) :> NewSocket(sid))

\* socket.close(): CONNECTING/OPEN -> CLOSING, no effect on CLOSING/CLOSED.
CloseOf(s) ==
    [s EXCEPT !.closeCalled = TRUE,
              !.readyState = IF s.readyState \in {"CONNECTING", "OPEN"}
                             THEN "CLOSING" ELSE s.readyState]

\* if (websocket) { websocket.close(); }
CloseIfSet(socks, handle) ==
    IF handle = Null THEN socks
    ELSE [socks EXCEPT ![handle] = CloseOf(socks[handle])]

\* ------------------------------------------------------------- outcomes

\* error.message || 'Неизвестная ошибка'
ErrorMessage(message) == IF message = "" THEN "unknown error" ELSE message

\* batchResults.push({url, success: false, error})
FailureOutcome(url, message) ==
    [url |-> url, success |-> FALSE, result |-> Null,
     error |-> ErrorMessage(message)]

\* batchResults.push({url, success: true, result})
SuccessOutcome(url, result) ==
    [url |-> url, success |-> TRUE, result |-> result, error |-> ""]

\* The bodies response.json() can produce: a JSON object whose
\* validation.overall_score is a number or absent ("object"), or a value the
\* result formatting cannot read ("null": the JSON value null; an object whose
\* overall_score is a non-empty string behaves the same way).
ParsedBodies == {"object", "null"}

\* `result.validation && result.validation.overall_score ?
\*      result.validation.overall_score.toFixed(1) : '0'`
\* throws a TypeError when result is null (property read of null).
ScoreTextThrows(body) == body = "null"

\* Variant of NeedsDelay: the delay is awaited after the last item too.
NeedsDelayAlways(i, n) == i < n

\* if (i < batchData.length - 1): the inter-item delay is awaited.
NeedsDelay(i, n) == i < n - 1

\* batchData as the parsers return it: one work item per accepted row.
BatchData(n) == [j \in 1..n |-> [url |-> j]]

IdleFlow ==
    [kind |-> "none", pc |-> "idle", batchData |-> <<>>, i |-> 0,
     batchResults |-> <<>>, ids |-> 0, delays |-> <<>>, summary |-> <<>>,
     rendered |-> FALSE, alerts |-> 0, preflight |-> "none",
     wsPromise |-> "none", wsError |-> "", timer |-> "none",
     firedOpen |-> FALSE, shown |-> "none"]

\* No pure function has been called.
NoCall == [fn |-> "none"]

\* ---------------------------------------------------------------- Init

InitCommon ==
    /\ websocket = Null
    /\ handlerWebsocket = Null
    /\ sessionId = Null
    /\ linkBuilderWebSocket = Null
    /\ linkBuilderSessionId = Null
    /\ chatSessionId = Null
    /\ chatWebSocket = Null
    /\ sockets = <<>>
    /\ requests = <<>>
    /\ flows = [f \in Flows |-> IdleFlow]
    /\ call = NoCall

InitApp == page = "app" /\ InitCommon

\* ------------------------------------------------- main page: the batch loop

\* The user actions start flows in order: the next one takes the first idle slot.
NextIdle(f) ==
    /\ flows[f].pc = "idle"
    /\ \A g \in Flows : g < f => flows[g].pc # "idle"

\* The share of the request budget a flow takes: the requests it issues
\* before it ends (one per batch item, one per single request), and one for
\* a started flow that issues none.
Units(fl) ==
    CASE fl.kind = "none" -> 0
      [] fl.kind = "batch" /\ Len(fl.batchData) > 1 -> Len(fl.batchData)
      [] OTHER -> 1

RECURSIVE Committed(_)
Committed(f) ==
    IF f = 0 THEN 0 ELSE Committed(f - 1) + Units(flows[f])

WithinBudget(n) == Committed(MaxFlows) + n <= MaxRequests

\* Flow f may go on with a batch of n items.
FitsBudget(f, n) ==
    Committed(MaxFlows) - Units(flows[f]) + (IF n > 1 THEN n ELSE 1) <= MaxRequests

\* The request flow f is waiting for: the last one it issued.
CurrentRequest(f) == <<f, Cardinality({r \in DOMAIN requests : r[1] = f})>>

\* Name of the next request flow f issues.
NextRequest(f) == <<f, Cardinality({r \in DOMAIN requests : r[1] = f}) + 1>>

\* Variant of BeginItem: the fetch of a batch item is not awaited, so the
\* loop body goes on with the pending promise (whose `ok` is undefined: the
\* item is recorded as failed) while the request is still in flight.
BeginItemNoAwait(f, fl) ==
    LET socks == ConnectWebSocket(f, sessionId')
        req == [item |-> fl.i + 1, session_id |-> sessionId',
                ws |-> websocket', status |-> "pending", body |-> "none"]
        sent == [fl EXCEPT !.pc = "fetch", !.ids = fl.ids + 1]
        failed == [sent EXCEPT !.batchResults =
                      Append(sent.batchResults,
                             [url |-> sent.batchData[sent.i + 1].url,
                              success |-> FALSE, result |-> Null,
                              error |-> "request processing error"])]
    IN  /\ sessionId' = GenerateSessionId(f, fl)
        /\ websocket' = NextSocket(f)
        /\ sockets' = socks
        /\ requests' = requests @@ (NextRequest(f) :> req)
        /\ flows' = [flows EXCEPT ![f] =
                        IF fl.kind # "batch" THEN sent
                        ELSE IF fl.i < Len(fl.batchData) - 1
                             THEN [failed EXCEPT !.pc = "delay",
                                      !.delays = Append(failed.delays, fl.i)]
                             ELSE [failed EXCEPT !.pc = "done"]]

\* Loop body up to the fetch: sessionId = generateSessionId();
\* await connectWebSocket(sessionId);
\* fetch('/process', {body: {...pageData, session_id: sessionId}}).
BeginItem(f, fl) ==
    LET socks == ConnectWebSocket(f, sessionId')
        req == [item |-> fl.i + 1, session_id |-> sessionId',
                ws |-> websocket', status |-> "pending", body |-> "none"]
    IN  /\ sessionId' = GenerateSessionId(f, fl)
        /\ websocket' = NextSocket(f)
        /\ sockets' = socks
        /\ requests' = requests @@ (NextRequest(f) :> req)
        /\ flows' = [flows EXCEPT ![f] =
                        [fl EXCEPT !.pc = "fetch", !.ids = fl.ids + 1]]

\* After the loop: the totals of the summary log.
Summary(results) ==
    [total |-> Len(results),
     ok |-> Cardinality({k \in 1..Len(results) : results[k].success}),
     failed |-> Cardinality({k \in 1..Len(results) : ~results[k].success})]

\* displayBatchResults reads item.result.validation of every success entry:
\* it throws on a null result (window.batchResults is then not set).
DisplayBatchResultsThrows(results) ==
    \E k \in 1..Len(results) :
        results[k].success /\ ScoreTextThrows(results[k].result.body)

\* Lines 590-599: the summary log entries, then displayBatchResults.
Finish(fl) ==
    [fl EXCEPT !.pc = "done",
               !.summary = Append(fl.summary, Summary(fl.batchResults)),
               !.rendered = ~DisplayBatchResultsThrows(fl.batchResults)]

\* Variant of AfterItem: a failed item ends the loop (the catch rethrows).
AfterItemAbortOnFailure(fl) ==
    IF /\ NeedsDelay(fl.i, Len(fl.batchData))
       /\ fl.batchResults[Len(fl.batchResults)].success
    THEN [fl EXCEPT !.pc = "delay", !.delays = Append(fl.delays, fl.i)]
    ELSE Finish(fl)

\* Variant of AfterItem: after a failed item that is not the last the loop
\* stops where it is, without a summary.
AfterItemHaltOnFailure(fl) ==
    IF NeedsDelay(fl.i, Len(fl.batchData))
    THEN IF fl.batchResults[Len(fl.batchResults)].success
         THEN [fl EXCEPT !.pc = "delay", !.delays = Append(fl.delays, fl.i)]
         ELSE [fl EXCEPT !.pc = "halted"]
    ELSE Finish(fl)

\* After the try/catch of item i: start the delay timer and wait, or leave
\* the loop.
AfterItem(fl) ==
    IF NeedsDelay(fl.i, Len(fl.batchData))
    THEN [fl EXCEPT !.pc = "delay", !.delays = Append(fl.delays, fl.i)]
    ELSE Finish(fl)

\* The three ways the batch form takes its input (batchInputType).
InputTypes == {"simple", "csv", "manual"}

\* if (batchData.length === 0) { alert(...); return; }  and, past it, the
\* first iteration of the loop up to its fetch.  n is the number of items
\* the parser returned.
StartLoop(f, fl, n) ==
    /\ FitsBudget(f, n)
    /\ IF n = 0
       THEN /\ flows' = [flows EXCEPT ![f] =
                            [fl EXCEPT !.pc = "done", !.alerts = 1,
                                       !.preflight = "empty"]]
            /\ UNCHANGED <<websocket, sessionId, sockets, requests>>
       ELSE BeginItem(f, [fl EXCEPT !.batchData = BatchData(n),
                                    !.preflight = "passed"])

\* Form submit in batch mode: processBatchRequest up to its first await.  A
\* missing input (no URL list, no file, no manual text) is alerted and the
\* function returns; a CSV file is read first (await csvFile.text()); the
\* other inputs are parsed at once.
SubmitBatch(f, inputType, present, n) ==
    /\ page = "app"
    /\ NextIdle(f)
    /\ WithinBudget(1)
    /\ LET fl == [flows[f] EXCEPT !.kind = "batch"]
       IN  IF ~present
           THEN /\ flows' = [flows EXCEPT ![f] =
                                [fl EXCEPT !.pc = "done", !.alerts = 1,
                                           !.preflight = "missing"]]
                /\ UNCHANGED <<websocket, sessionId, sockets, requests>>
           ELSE IF inputType = "csv"
           THEN /\ flows' = [flows EXCEPT ![f] = [fl EXCEPT !.pc = "read"]]
                /\ UNCHANGED <<websocket, sessionId, sockets, requests>>
           ELSE StartLoop(f, fl, n)
    /\ UNCHANGED <<chatHandles, call, page, handlerWebsocket, linkBuilderWebSocket, linkBuilderSessionId>>

\* How the read of the selected file can end.
ReadOutcomes == {"text", "rejected"}

\* await csvFile.text() settles.  With the text, parseCSV and the rest of the
\* function up to the first fetch; a rejected read (the file is no longer
\* readable) is thrown out of processBatchRequest, which no caller catches.
FileRead(f, outcome, n) ==
    /\ page = "app"
    /\ flows[f].kind = "batch"
    /\ flows[f].pc = "read"
    /\ IF outcome = "rejected"
       THEN /\ flows' = [flows EXCEPT ![f].pc = "done",
                                      ![f].preflight = "unreadable"]
            /\ UNCHANGED <<websocket, sessionId, sockets, requests>>
       ELSE StartLoop(f, flows[f], n)
    /\ UNCHANGED <<chatHandles, call, page, handlerWebsocket, linkBuilderWebSocket, linkBuilderSessionId>>

\* Variant of CatchItem: the catch logs the error and records nothing.
CatchItemSwallow(fl, message) == fl

\* catch (error) { batchResults.push({url, success: false, error: errorMsg}) }
CatchItem(fl, message) ==
    [fl EXCEPT !.batchResults =
        Append(fl.batchResults,
               FailureOutcome(fl.batchData[fl.i + 1].url, message))]

\* The fetch of a batch item settles: it rejects, resolves with a non-OK
\* status (throw new Error(...)), or resolves OK (await response.json()).
BatchFetchSettles(f, outcome) ==
    /\ page = "app"
    /\ flows[f].kind = "batch"
    /\ flows[f].pc = "fetch"
    /\ LET fl == flows[f]
           r == CurrentRequest(f)
       IN
       CASE outcome = "rejected" ->
              /\ requests' = [requests EXCEPT ![r].status = "rejected"]
              /\ flows' = [flows EXCEPT ![f] =
                              AfterItem(CatchItem(fl, "Failed to fetch"))]
         [] outcome = "not_ok" ->
              /\ requests' = [requests EXCEPT ![r].status = "not_ok"]
              /\ flows' = [flows EXCEPT ![f] =
                              AfterItem(CatchItem(fl, "request processing error"))]
         [] outcome = "ok" ->
              /\ requests' = [requests EXCEPT ![r].status = "ok_headers"]
              /\ flows' = [flows EXCEPT ![f].pc = "json"]
    /\ UNCHANGED <<chatHandles, call, page, handlerWebsocket, websocket, sessionId, sockets,
                   linkBuilderWebSocket, linkBuilderSessionId>>

\* Try-block tail after a parsed body: push the success outcome, write the two
\* log lines (which format the score), close the current socket.  A throw of
\* the log line lands in the catch, which pushes a failure outcome.
RecordParsed(fl, result) ==
    LET pushed == [fl EXCEPT !.batchResults =
                      Append(fl.batchResults,
                             SuccessOutcome(fl.batchData[fl.i + 1].url, result))]
    IN  IF ScoreTextThrows(result.body)
        THEN CatchItem(pushed, "TypeError")
        ELSE pushed

\* Which sockets the try-block tail has closed: if (websocket) websocket.close(),
\* reached only when nothing before it threw.
CloseAfterItem(socks, handle, threw) ==
    IF threw THEN socks ELSE CloseIfSet(socks, handle)

\* response.json() of a batch item settles.
BatchJsonSettles(f, body) ==
    /\ page = "app"
    /\ flows[f].kind = "batch"
    /\ flows[f].pc = "json"
    /\ LET fl == flows[f]
           r == CurrentRequest(f)
           result == [of |-> requests[r].session_id, body |-> body]
       IN  IF body = "unparsable"
           THEN /\ requests' = [requests EXCEPT ![r].status = "unparsable"]
                /\ flows' = [flows EXCEPT ![f] =
                                AfterItem(CatchItem(fl, "SyntaxError"))]
                /\ sockets' = CloseAfterItem(sockets, websocket, TRUE)
           ELSE /\ requests' = [requests EXCEPT ![r].status = "ok",
                                                ![r].body = body]
                /\ flows' = [flows EXCEPT ![f] = AfterItem(RecordParsed(fl, result))]
                /\ sockets' = CloseAfterItem(sockets, websocket,
                                             ScoreTextThrows(body))
    /\ UNCHANGED <<chatHandles, call, page, handlerWebsocket, websocket, sessionId,
                   linkBuilderWebSocket, linkBuilderSessionId>>

\* The inter-item timer fires: i++ and the next loop body.
DelayElapses(f) ==
    /\ page = "app"
    /\ flows[f].pc = "delay"
    /\ LET fl == flows[f] IN
       BeginItem(f, [fl EXCEPT !.i = fl.i + 1])
    /\ UNCHANGED <<chatHandles, call, page, handlerWebsocket, linkBuilderWebSocket, linkBuilderSessionId>>

\* ----------------------------------------- main page: the single request

\* Form submit in single mode, or the test button (testSystem): processRequest
\* up to its fetch.
ProcessRequest(f) ==
    /\ page = "app"
    /\ NextIdle(f)
    /\ WithinBudget(1)
    /\ BeginItem(f, [flows[f] EXCEPT !.kind = "single"])
    /\ UNCHANGED <<chatHandles, call, page, handlerWebsocket, linkBuilderWebSocket, linkBuilderSessionId>>

\* catch { alert } finally { if (websocket) websocket.close(); }
SingleFinally(f, alerted) ==
    /\ flows' = [flows EXCEPT ![f].pc = "done",
                              ![f].alerts = IF alerted THEN 1 ELSE 0]
    /\ sockets' = CloseIfSet(sockets, websocket)

\* The fetch of processRequest settles.
SingleFetchSettles(f, outcome) ==
    /\ page = "app"
    /\ flows[f].kind = "single"
    /\ flows[f].pc = "fetch"
    /\ LET r == CurrentRequest(f) IN
       IF outcome = "ok"
       THEN /\ requests' = [requests EXCEPT ![r].status = "ok_headers"]
            /\ flows' = [flows EXCEPT ![f].pc = "json"]
            /\ UNCHANGED sockets
       ELSE /\ requests' = [requests EXCEPT ![r].status = "settled"]
            /\ SingleFinally(f, TRUE)
    /\ UNCHANGED <<chatHandles, call, page, handlerWebsocket, websocket, sessionId,
                   linkBuilderWebSocket, linkBuilderSessionId>>

\* response.json() of processRequest settles, then displayResults(result),
\* which reads result.status and throws on null.
SingleJsonSettles(f, body) ==
    /\ page = "app"
    /\ flows[f].kind = "single"
    /\ flows[f].pc = "json"
    /\ requests' = [requests EXCEPT ![CurrentRequest(f)].status = "settled"]
    /\ SingleFinally(f, body \in {"unparsable", "null"})
    /\ UNCHANGED <<chatHandles, call, page, handlerWebsocket, websocket, sessionId,
                   linkBuilderWebSocket, linkBuilderSessionId>>

\* --------------------------------------------------- socket events (browser)

\* The handshake completes: the open event.
SocketOpens(w) ==
    /\ sockets[w].readyState = "CONNECTING"
    /\ sockets' = [sockets EXCEPT ![w].readyState = "OPEN"]

\* The connection ends without close() having been called: a failed
\* handshake or a close by the peer.
SocketCloses(w) ==
    /\ sockets[w].readyState \in {"CONNECTING", "OPEN"}
    /\ sockets' = [sockets EXCEPT ![w].readyState = "CLOSED"]

\* websocket.onopen of the main page: console.log only.
AppSocketOpens(w) ==
    /\ page = "app"
    /\ SocketOpens(w)
    /\ UNCHANGED <<chatHandles, call, page, handlerWebsocket, websocket, sessionId, requests, flows,
                   linkBuilderWebSocket, linkBuilderSessionId>>

\* websocket.onerror / websocket.onclose of the main page: console.log only.
\* (The close event that ends a close() changes nothing the page reads: a
\* socket closed by the page stays in CLOSING here.)
AppSocketCloses(w) ==
    /\ page = "app"
    /\ SocketCloses(w)
    /\ UNCHANGED <<chatHandles, call, page, handlerWebsocket, websocket, sessionId, requests, flows,
                   linkBuilderWebSocket, linkBuilderSessionId>>

FetchOutcomes == {"rejected", "not_ok", "ok"}
JsonOutcomes == ParsedBodies \cup {"unparsable"}

NextApp ==
    \/ \E f \in Flows, t \in InputTypes, p \in BOOLEAN, n \in 0..MaxItems :
          SubmitBatch(f, t, p, n)
    \/ \E f \in Flows, o \in ReadOutcomes, n \in 0..MaxItems : FileRead(f, o, n)
    \/ \E f \in Flows : ProcessRequest(f)
    \/ \E f \in Flows, o \in FetchOutcomes : BatchFetchSettles(f, o)
    \/ \E f \in Flows, b \in JsonOutcomes : BatchJsonSettles(f, b)
    \/ \E f \in Flows : DelayElapses(f)
    \/ \E f \in Flows, o \in FetchOutcomes : SingleFetchSettles(f, o)
    \/ \E f \in Flows, b \in JsonOutcomes : SingleJsonSettles(f, b)
    \/ \E w \in DOMAIN sockets : AppSocketOpens(w)
    \/ \E w \in DOMAIN sockets : AppSocketCloses(w)

Spec == InitApp /\ [][NextApp]_vars

\* Every HTTP call eventually settles (the fetch and the read of its body),
\* and the timer of the pause between two items eventually fires.
Fairness ==
    \A f \in Flows :
        /\ WF_vars(\E o \in FetchOutcomes : BatchFetchSettles(f, o))
        /\ WF_vars(\E b \in JsonOutcomes : BatchJsonSettles(f, b))
        /\ WF_vars(DelayElapses(f))

SpecLive == InitApp /\ [][NextApp]_vars /\ Fairness

\* ------------------------------------------------------------ strings
\* A string is a sequence of tokens; a token stands for the characters
\* between its quotes, except that "<de>" stands for a Cyrillic letter of the
\* range U+0430..U+044F (shared by Russian and Ukrainian), "<i>" for the
\* Ukrainian letter U+0456, "<yo>" for the Russian letter U+0451, "<cena>"
\* for the Russian keyword and "<cina>" for the Ukrainian keyword of the
\* language patterns ("<cina>" is "<c>", "<i>", "<na>" written together).

\* Tokens made of Latin letters only.
LatinTokens == {"a", "url", "buy", "Page", "Brand", "general",
                "FormBrand", "formtype", "rowbrand", "rowtype", "adults"}

\* Tokens made of letters of the range U+0430..U+044F only.
RangeCyrillicTokens == {"<de>", "<cena>", "<c>", "<na>"}

\* Tokens of String.prototype.trim and of \s.
IsWhitespace(c) == c \in {" ", "\n"}

RECURSIVE TrimStart(_)
TrimStart(s) ==
    IF s # <<>> /\ IsWhitespace(Head(s)) THEN TrimStart(Tail(s)) ELSE s

RECURSIVE TrimEnd(_)
TrimEnd(s) ==
    IF s # <<>> /\ IsWhitespace(s[Len(s)])
    THEN TrimEnd(SubSeq(s, 1, Len(s) - 1))
    ELSE s

\* String.prototype.trim
Trim(s) == TrimEnd(TrimStart(s))

\* String.prototype.split(sep): the pieces between the separators, at least one.
RECURSIVE Split(_, _)
Split(s, sep) ==
    IF \E k \in 1..Len(s) : s[k] = sep
    THEN LET k == CHOOSE k \in 1..Len(s) :
                     s[k] = sep /\ \A j \in 1..(k - 1) : s[j] # sep
         IN  <<SubSeq(s, 1, k - 1)>> \o Split(SubSeq(s, k + 1, Len(s)), sep)
    ELSE <<s>>

\* The callback of .filter(url => url.trim()): a non-empty trimmed string is truthy.
NonBlank(s) == Trim(s) # <<>>

\* text.trim().split('\n').filter(l => l.trim())
NonBlankLinesOf(text) == SelectSeq(Split(Trim(text), "\n"), NonBlank)

\* ------------------------------------------------------- detectLanguage

\* /[а-яєіїґ]/i matches a character of the token.
HasUkCharacter(c) == c \in RangeCyrillicTokens \cup {"<i>", "<cina>"}

\* /[а-яё]/i matches a character of the token.
HasRuCharacter(c) == c \in RangeCyrillicTokens \cup {"<yo>", "<cina>"}

\* The token consists of [a-z\s] characters (case-insensitive).
IsLatinOrSpace(c) == c \in LatinTokens \/ IsWhitespace(c)

\* The first / last character of the token is a \w character.
IsWordToken(c) == c \in LatinTokens \cup {"1"}

\* A \b lies before position k: exactly one of the characters around it is \w.
BoundaryBefore(text, k) ==
    IsWordToken(text[k]) # (k > 1 /\ IsWordToken(text[k - 1]))

\* A \b lies after position k.
BoundaryAfter(text, k) ==
    IsWordToken(text[k]) # (k < Len(text) /\ IsWordToken(text[k + 1]))

\* /\b(kw)\b/i.test(text) for the keyword list represented by token kw.
KeywordMatches(text, kw) ==
    \E k \in 1..Len(text) :
        text[k] = kw /\ BoundaryBefore(text, k) /\ BoundaryAfter(text, k)

UkCharacterMatches(text) == \E k \in 1..Len(text) : HasUkCharacter(text[k])
RuCharacterMatches(text) == \E k \in 1..Len(text) : HasRuCharacter(text[k])

\* /^[a-z\s]+$/i.test(text)
OnlyLatinMatches(text) ==
    text # <<>> /\ \A k \in 1..Len(text) : IsLatinOrSpace(text[k])

Count(b) == IF b THEN 1 ELSE 0

UkScore(text) == Count(UkCharacterMatches(text)) + Count(KeywordMatches(text, "<cina>"))
RuScore(text) == Count(RuCharacterMatches(text)) + Count(KeywordMatches(text, "<cena>"))
EnScore(text) == Count(OnlyLatinMatches(text)) + Count(KeywordMatches(text, "buy"))

\* Variant of DecideLanguage: a tie of the Russian and Ukrainian scores
\* goes to Russian.
DecideLanguageRuOnTie(en, ru, uk, ukChar, ruChar) ==
    IF en > 0 /\ ~ukChar /\ ~ruChar THEN "en"
    ELSE IF ru >= uk THEN "ru"
    ELSE "uk"

\* The decision of detectLanguage on the three scores.
DecideLanguage(en, ru, uk, ukChar, ruChar) ==
    IF en > 0 /\ ~ukChar /\ ~ruChar THEN "en"
    ELSE IF ru > uk THEN "ru"
    ELSE IF uk > 0 THEN "uk"
    ELSE "uk"

detectLanguage(text) ==
    IF text = <<>> THEN "uk"
    ELSE DecideLanguage(EnScore(text), RuScore(text), UkScore(text),
                        UkCharacterMatches(text), RuCharacterMatches(text))


\* --------------------------------------------- parseSimpleList, parseCSV

\* One character of lastPart under .replace(/[^a-zA-Zа-яА-Я0-9]/g, ' '):
\* the letters U+0456 and U+0451 lie outside the ranges and become spaces.
ReplaceToken(c) ==
    IF c \in LatinTokens \cup RangeCyrillicTokens \cup {"1"} THEN <<c>>
    ELSE IF c = "<cina>" THEN <<"<c>", " ", "<na>">>
    ELSE <<" ">>

RECURSIVE ReplaceNonAlnum(_)
ReplaceNonAlnum(s) ==
    IF s = <<>> THEN <<>>
    ELSE ReplaceToken(Head(s)) \o ReplaceNonAlnum(Tail(s))

\* Variant of DerivedTopic: without the default `|| 'Page'`.
DerivedTopicNoDefault(cleanUrl) ==
    LET urlParts == Split(cleanUrl, "/")
    IN  Trim(ReplaceNonAlnum(urlParts[Len(urlParts)]))

\* Lines 615-618: the topic derived from the last path segment of the URL.
DerivedTopic(cleanUrl) ==
    LET urlParts == Split(cleanUrl, "/")
        lastPart == urlParts[Len(urlParts)]
        topic == Trim(ReplaceNonAlnum(lastPart))
    IN  IF topic = <<>> THEN <<"Page">> ELSE topic

\* Lines 611-619: the keyword at the index of the URL, or the derived topic.
\* index counts from 1 here, from 0 in the source.
TopicAt(keywords, index, cleanUrl) ==
    IF index <= Len(keywords) /\ Trim(keywords[index]) # <<>>
    THEN Trim(keywords[index])
    ELSE DerivedTopic(cleanUrl)

\* if (targetAudience) userQuery += ` Цільова аудиторія: ${targetAudience}.`
AudienceSuffix(targetAudience) ==
    IF targetAudience # <<>>
    THEN <<" audience: ">> \o targetAudience \o <<".">>
    ELSE <<>>

\* The three instruction templates. Their fixed wording is shortened to one
\* token each; the interpolated values stand where the code puts them.
ContentQuery(url, topic, brand, business, targetAudience) ==
    <<"content for ">> \o url \o <<" keyword ">> \o topic \o <<" brand ">>
        \o brand \o <<" (">> \o business \o <<")">>
        \o AudienceSuffix(targetAudience)

MetaQuery(url, topic, brand, business, targetAudience) ==
    <<"meta tags for ">> \o url \o <<" keyword ">> \o topic \o <<" brand ">>
        \o brand \o <<" (">> \o business \o <<")">>
        \o AudienceSuffix(targetAudience)

GenerateQuery(url, topic) == <<"text for ">> \o url \o <<" about ">> \o topic

\* pageData with its user_query; target_audience is set under if (targetAudience).
PageData(url, topic, targetAudience, userQuery) ==
    IF targetAudience # <<>>
    THEN [url |-> url, topic |-> topic, keyword |-> topic,
          language |-> detectLanguage(topic),
          target_audience |-> targetAudience, user_query |-> userQuery]
    ELSE [url |-> url, topic |-> topic, keyword |-> topic,
          language |-> detectLanguage(topic), user_query |-> userQuery]

\* Lines 634-646: the instruction of an item of parseSimpleList.
SimpleQuery(url, topic, generationMode, brandName, businessType, targetAudience) ==
    IF generationMode = "chatgpt" /\ brandName # <<>> /\ businessType # <<>>
    THEN ContentQuery(url, topic, brandName, businessType, targetAudience)
    ELSE IF generationMode = "meta_only" /\ brandName # <<>> /\ businessType # <<>>
    THEN MetaQuery(url, topic, brandName, businessType, targetAudience)
    ELSE GenerateQuery(url, topic)

parseSimpleList(urlList, keywordsList, generationMode, brandName, businessType, targetAudience) ==
    LET urls == NonBlankLinesOf(urlList)
        keywords == IF keywordsList # <<>> THEN NonBlankLinesOf(keywordsList)
                    ELSE <<>>
    IN  [index \in 1..Len(urls) |->
            LET cleanUrl == Trim(urls[index])
                topic == TopicAt(keywords, index, cleanUrl)
            IN  PageData(cleanUrl, topic, targetAudience,
                         SimpleQuery(cleanUrl, topic, generationMode,
                                     brandName, businessType, targetAudience))]

\* line.startsWith('url,')
StartsWithUrlComma(line) ==
    Len(line) >= 2 /\ line[1] = "url" /\ line[2] = ","

\* line.split(',').map(p => p.trim())
PartsOf(line) ==
    LET raw == Split(line, ",") IN [k \in 1..Len(raw) |-> Trim(raw[k])]

\* a || b || c on strings: the first that is not empty, or the last.
FirstTruthy(a, b, c) == IF a # <<>> THEN a ELSE IF b # <<>> THEN b ELSE c

\* parts[k] of the source (counted from 0), undefined past the end.
PartOrEmpty(parts, k) == IF k + 1 <= Len(parts) THEN parts[k + 1] ELSE <<>>

\* Lines 684-700: the instruction of a row of parseCSV.
CsvQuery(parts, generationMode, brandName, businessType, targetAudience) ==
    LET url == parts[1]
        topic == parts[2]
        pageBrandName == FirstTruthy(PartOrEmpty(parts, 2), brandName, <<"Brand">>)
        pageBusinessType ==
            FirstTruthy(PartOrEmpty(parts, 3), businessType, <<"general">>)
    IN  IF generationMode = "chatgpt" /\ Len(parts) >= 3
        THEN ContentQuery(url, topic, pageBrandName, pageBusinessType, targetAudience)
        ELSE IF generationMode = "meta_only" /\ Len(parts) >= 3
        THEN MetaQuery(url, topic, pageBrandName, pageBusinessType, targetAudience)
        ELSE GenerateQuery(url, topic)

\* Variant of CsvRow: a line starting with `url,` is not skipped.
CsvRowNoHeaderSkip(rawLine, generationMode, brandName, businessType, targetAudience) ==
    LET line == Trim(rawLine)
        parts == PartsOf(line)
    IN  IF line # <<>> /\ Len(parts) >= 2
        THEN <<PageData(parts[1], parts[2], targetAudience,
                        CsvQuery(parts, generationMode, brandName,
                                 businessType, targetAudience))>>
        ELSE <<>>

\* Lines 662-704: what one line of the text adds to data.
CsvRow(rawLine, generationMode, brandName, businessType, targetAudience) ==
    LET line == Trim(rawLine)
        parts == PartsOf(line)
    IN  IF line = <<>> \/ StartsWithUrlComma(line) THEN <<>>
        ELSE IF Len(parts) >= 2
        THEN <<PageData(parts[1], parts[2], targetAudience,
                        CsvQuery(parts, generationMode, brandName,
                                 businessType, targetAudience))>>
        ELSE <<>>

RECURSIVE CsvRows(_, _, _, _, _)
CsvRows(lines, generationMode, brandName, businessType, targetAudience) ==
    IF lines = <<>> THEN <<>>
    ELSE CsvRow(Head(lines), generationMode, brandName, businessType, targetAudience)
         \o CsvRows(Tail(lines), generationMode, brandName, businessType,
                    targetAudience)

parseCSV(csvText, generationMode, brandName, businessType, targetAudience) ==
    CsvRows(Split(Trim(csvText), "\n"), generationMode, brandName,
            businessType, targetAudience)

\* text of several lines: lines.join('\n')
RECURSIVE JoinLines(_)
JoinLines(lines) ==
    IF lines = <<>> THEN <<>>
    ELSE IF Len(lines) = 1 THEN lines[1]
    ELSE lines[1] \o <<"\n">> \o JoinLines(Tail(lines))

\* ------------------------------------------------ calls of the parsers

\* The state before a call of a pure function: no page activity.
InitPure == page = "none" /\ InitCommon

\* All sequences of at most n elements of S.
SeqsUpTo(S, n) == UNION {[1..k -> S] : k \in 0..n}

\* The texts of at most MaxLines lines taken from a set of lines.
TextsOf(lines) == {JoinLines(ls) : ls \in SeqsUpTo(lines, MaxLines)}

\* Lines of a URL list: blank; padded with spaces; empty last segment; last
\* segment of punctuation; of punctuation and U+0456; of letters and digits.
UrlLines ==
    {<<>>, <<" ", "a", "/", "a", " ">>, <<"a", "/">>, <<"a", "/", "-">>,
     <<"a", "/", "-", "<i>">>, <<"a", "/", "<de>", "-", "1">>}

\* Lines of a keyword list: blank, an English keyword, a padded Cyrillic one.
KeywordLines == {<<>>, <<"buy">>, <<" ", "<de>", " ">>}

\* Lines of a CSV text: blank; header; 1 field; 2 padded fields; an empty
\* second field; 3 fields; 4 fields; 4 fields with an empty third.
CsvLines ==
    {<<>>, <<"url", ",", "a">>, <<"a">>,
     <<" ", "a", " ", ",", " ", "buy", " ">>, <<"a", ",">>,
     <<"a", ",", "<de>", ",", "rowbrand">>,
     <<"a", ",", "a", ",", "rowbrand", ",", "rowtype">>,
     <<"a", ",", "a", ",", ",", "rowtype">>}

UrlLists == TextsOf(UrlLines)
KeywordsLists == TextsOf(KeywordLines)
CsvTexts == TextsOf(CsvLines)

GenerationModes == {"auto", "chatgpt", "meta_only"}
BrandNames == {<<>>, <<"FormBrand">>}
BusinessTypes == {<<>>, <<"formtype">>}
\* formData.get('batchTargetAudience') || '': empty, blanks only, or a text.
TargetAudiences == {<<>>, <<" ">>, <<"adults">>}

CallParseSimpleList(urlList, keywordsList, generationMode, brandName, businessType, targetAudience) ==
    /\ call.fn = "none"
    /\ call' = [fn |-> "parseSimpleList", urlList |-> urlList,
                keywordsList |-> keywordsList,
                generationMode |-> generationMode, brandName |-> brandName,
                businessType |-> businessType,
                targetAudience |-> targetAudience,
                result |-> parseSimpleList(urlList, keywordsList,
                                           generationMode, brandName,
                                           businessType, targetAudience)]
    /\ UNCHANGED <<chatHandles, page, handlerWebsocket, websocket, sessionId, linkBuilderWebSocket,
                   linkBuilderSessionId, sockets, requests, flows>>

CallParseCSV(csvText, generationMode, brandName, businessType, targetAudience) ==
    /\ call.fn = "none"
    /\ call' = [fn |-> "parseCSV", csvText |-> csvText,
                generationMode |-> generationMode, brandName |-> brandName,
                businessType |-> businessType,
                targetAudience |-> targetAudience,
                result |-> parseCSV(csvText, generationMode, brandName,
                                    businessType, targetAudience)]
    /\ UNCHANGED <<chatHandles, page, handlerWebsocket, websocket, sessionId, linkBuilderWebSocket,
                   linkBuilderSessionId, sockets, requests, flows>>

NextParse ==
    \/ /\ call.fn = "none"
       /\ \E u \in UrlLists, k \in KeywordsLists,
             m \in GenerationModes, b \in BrandNames, t \in BusinessTypes,
             a \in TargetAudiences : CallParseSimpleList(u, k, m, b, t, a)
    \/ /\ call.fn = "none"
       /\ \E c \in CsvTexts, m \in GenerationModes, b \in BrandNames,
             t \in BusinessTypes, a \in TargetAudiences :
             CallParseCSV(c, m, b, t, a)

SpecParse == InitPure /\ [][NextParse]_vars

\* ------------------------------------------------ calls of detectLanguage

LanguageTokens ==
    {"a", " ", "1", "-", "<de>", "<i>", "<yo>", "buy", "<cena>", "<cina>"}

CallDetectLanguage(text) ==
    /\ call.fn = "none"
    /\ call' = [fn |-> "detectLanguage", text |-> text,
                result |-> detectLanguage(text)]
    /\ UNCHANGED <<chatHandles, page, handlerWebsocket, websocket, sessionId, linkBuilderWebSocket,
                   linkBuilderSessionId, sockets, requests, flows>>

LanguageTexts == SeqsUpTo(LanguageTokens, MaxText)

NextLanguage ==
    /\ call.fn = "none"
    /\ \E text \in LanguageTexts : CallDetectLanguage(text)

SpecLanguage == InitPure /\ [][NextLanguage]_vars

\* ------------------------------------------------ the domain exports

\* String.prototype.toLowerCase on a recommendation.
ToLowerCase(recommendation) ==
    IF recommendation = "DISAVOW" THEN "disavow" ELSE recommendation

\* A risk score is a JavaScript number; the model keeps one decimal digit
\* and holds a score as its count of tenths.
Tenths(whole, tenth) == 10 * whole + tenth

\* Variant of IsToxic: a link without a risk score is never toxic.
IsToxicScoredOnly(link) ==
    link.scored /\ (ToLowerCase(link.recommendation) = "disavow"
                       \/ link.risk_score >= Tenths(50, 0))

\* Variant of IsToxic: the score is rounded to a whole number first.
IsToxicRounded(link) ==
    \/ ToLowerCase(link.recommendation) = "disavow"
    \/ (link.scored /\ ((link.risk_score + 5) \div 10) * 10 >= Tenths(50, 0))

\* The filter of downloadToxicDomains (lines 820-823); scored is
\* risk_score !== undefined && risk_score !== null.
IsToxic(link) ==
    \/ ToLowerCase(link.recommendation) = "disavow"
    \/ (link.scored /\ link.risk_score >= Tenths(50, 0))

\* const riskScore = link.risk_score !== undefined && link.risk_score !== null
\*                       ? link.risk_score : 0
RiskScoreOf(link) == IF link.scored THEN link.risk_score ELSE 0

\* Variant of IsSuspicious: the upper limit of the range is inclusive.
IsSuspiciousUpTo50(link) ==
    \/ ToLowerCase(link.recommendation) = "attention"
    \/ /\ ToLowerCase(link.recommendation) # "disavow"
       /\ RiskScoreOf(link) >= Tenths(30, 0)
       /\ RiskScoreOf(link) <= Tenths(50, 0)

\* The filter of downloadSuspiciousDomains (lines 850-854).
IsSuspicious(link) ==
    \/ ToLowerCase(link.recommendation) = "attention"
    \/ /\ ToLowerCase(link.recommendation) # "disavow"
       /\ RiskScoreOf(link) >= Tenths(30, 0)
       /\ RiskScoreOf(link) < Tenths(50, 0)

\* Variant of IsToxicOrSuspicious: the score counts from 50 on.
IsToxicOrSuspiciousFrom50(link) ==
    \/ ToLowerCase(link.recommendation) = "disavow"
    \/ ToLowerCase(link.recommendation) = "attention"
    \/ RiskScoreOf(link) >= Tenths(50, 0)

\* The filter of downloadToxicAndSuspiciousDomains (lines 881-885).
IsToxicOrSuspicious(link) ==
    \/ ToLowerCase(link.recommendation) = "disavow"
    \/ ToLowerCase(link.recommendation) = "attention"
    \/ RiskScoreOf(link) >= Tenths(30, 0)

\* Variant of Unique: duplicates are kept.
UniqueKeepAll(domains) == domains

\* .filter((domain, index, self) => self.indexOf(domain) === index)
RECURSIVE Unique(_)
Unique(domains) ==
    IF domains = <<>> THEN <<>>
    ELSE LET front == Unique(SubSeq(domains, 1, Len(domains) - 1))
             last == domains[Len(domains)]
         IN  IF \E k \in 1..Len(front) : front[k] = last
             THEN front
             ELSE Append(front, last)

\* The callback of .filter(domain => domain).
IsNamed(domain) == domain # ""

\* .filter(test): the links whose test, given as one verdict per link, passed.
RECURSIVE Filtered(_, _)
Filtered(links, verdicts) ==
    IF links = <<>> THEN <<>>
    ELSE (IF Head(verdicts) THEN <<Head(links)>> ELSE <<>>)
         \o Filtered(Tail(links), Tail(verdicts))

\* .filter(test).map(link => link.domain).filter(domain => domain)
DomainsOf(links, verdicts) ==
    LET kept == Filtered(links, verdicts)
        domains == [k \in 1..Len(kept) |-> kept[k].domain]
    IN  SelectSeq(domains, IsNamed)

\* '# ...\n' + domains.map(domain => `domain:${domain}`).join('\n'), as the
\* lines of the file: a line is its prefix and the rest of it.
Content(header, domains) ==
    <<(<<"#", header>>)>> \o [k \in 1..Len(domains) |-> <<"domain:", domains[k]>>]

\* What a download function does: an alert, or a file of domain: lines
\* (file holds its lines, empty when no file is produced).
Export(links, verdicts, notFound, header) ==
    IF links = <<>>
    THEN [alert |-> "no data", domains |-> <<>>, file |-> <<>>]
    ELSE LET domains == Unique(DomainsOf(links, verdicts))
         IN  IF domains = <<>>
             THEN [alert |-> notFound, domains |-> <<>>, file |-> <<>>]
             ELSE [alert |-> "none", domains |-> domains,
                   file |-> Content(header, domains)]

downloadToxicDomains(currentLinkDetails) ==
    Export(currentLinkDetails,
           [k \in 1..Len(currentLinkDetails) |-> IsToxic(currentLinkDetails[k])],
           "no toxic domains", "toxic domains")

downloadSuspiciousDomains(currentLinkDetails) ==
    Export(currentLinkDetails,
           [k \in 1..Len(currentLinkDetails) |-> IsSuspicious(currentLinkDetails[k])],
           "no suspicious domains", "suspicious domains")

downloadToxicAndSuspiciousDomains(currentLinkDetails) ==
    Export(currentLinkDetails,
           [k \in 1..Len(currentLinkDetails) |->
               IsToxicOrSuspicious(currentLinkDetails[k])],
           "no toxic or suspicious domains", "toxic and suspicious domains")

\* The analysed links the server can return.
LinkDomains == {"", "d1.example", "d2.example"}
Recommendations == {"", "disavow", "DISAVOW", "attention"}
RiskScores == {Tenths(29, 9), Tenths(30, 0), Tenths(49, 9), Tenths(50, 0)}
Links ==
    [domain : LinkDomains, recommendation : Recommendations,
     scored : {TRUE}, risk_score : RiskScores]
    \cup [domain : LinkDomains, recommendation : Recommendations,
          scored : {FALSE}, risk_score : {0}]

LinkDetails == SeqsUpTo(Links, MaxLinks)

CallDownloadToxicDomains(currentLinkDetails) ==
    /\ call.fn = "none"
    /\ call' = [fn |-> "downloadToxicDomains",
                currentLinkDetails |-> currentLinkDetails,
                result |-> downloadToxicDomains(currentLinkDetails)]
    /\ UNCHANGED <<chatHandles, page, handlerWebsocket, websocket, sessionId, linkBuilderWebSocket,
                   linkBuilderSessionId, sockets, requests, flows>>

CallDownloadSuspiciousDomains(currentLinkDetails) ==
    /\ call.fn = "none"
    /\ call' = [fn |-> "downloadSuspiciousDomains",
                currentLinkDetails |-> currentLinkDetails,
                result |-> downloadSuspiciousDomains(currentLinkDetails)]
    /\ UNCHANGED <<chatHandles, page, handlerWebsocket, websocket, sessionId, linkBuilderWebSocket,
                   linkBuilderSessionId, sockets, requests, flows>>

CallDownloadToxicAndSuspiciousDomains(currentLinkDetails) ==
    /\ call.fn = "none"
    /\ call' = [fn |-> "downloadToxicAndSuspiciousDomains",
                currentLinkDetails |-> currentLinkDetails,
                result |-> downloadToxicAndSuspiciousDomains(currentLinkDetails)]
    /\ UNCHANGED <<chatHandles, page, handlerWebsocket, websocket, sessionId, linkBuilderWebSocket,
                   linkBuilderSessionId, sockets, requests, flows>>

NextExport ==
    \/ /\ call.fn = "none"
       /\ \E links \in LinkDetails : CallDownloadToxicDomains(links)
    \/ /\ call.fn = "none"
       /\ \E links \in LinkDetails : CallDownloadSuspiciousDomains(links)
    \/ /\ call.fn = "none"
       /\ \E links \in LinkDetails :
             CallDownloadToxicAndSuspiciousDomains(links)

SpecExport == InitPure /\ [][NextExport]_vars

\* ------------------------------------------------ the inter-item delay

\* The decimal digits of the delay field the model tells apart.
Digits == {"0", "1", "2"}

DigitValue(c) == CASE c = "0" -> 0 [] c = "1" -> 1 [] OTHER -> 2

\* The digits at the front of s read as a number, continuing from n.
RECURSIVE ReadDigits(_, _)
ReadDigits(s, n) ==
    IF s # <<>> /\ Head(s) \in Digits
    THEN ReadDigits(Tail(s), 10 * n + DigitValue(Head(s)))
    ELSE n

\* parseInt(value): blanks are skipped, a sign is read, then digits up to
\* the first other character; without a digit the result is NaN.  The
\* result is <<n>> for the number n and NaN, the empty tuple, otherwise.
NaN == <<>>
ParseInt(value) ==
    LET text == TrimStart(value)
        negative == text # <<>> /\ Head(text) = "-"
        digits == IF negative THEN Tail(text) ELSE text
    IN  IF digits = <<>> \/ Head(digits) \notin Digits THEN NaN
        ELSE IF negative THEN <<0 - ReadDigits(digits, 0)>>
        ELSE <<ReadDigits(digits, 0)>>

\* const delay = parseInt(formData.get('batchDelay')) || 2  (line 462);
\* NaN and 0 are falsy.
DelayOf(batchDelay) ==
    LET parsed == ParseInt(batchDelay)
    IN  IF parsed = NaN THEN 2
        ELSE IF parsed[1] = 0 THEN 2
        ELSE parsed[1]

\* setTimeout(resolve, delay * 1000)  (line 586)
TimeoutOf(delay) == delay * 1000

\* formData.get('batchDelay'): absent or empty, or the text of the field.
DelayTokens == Digits \cup {" ", "-", "a"}
BatchDelays == SeqsUpTo(DelayTokens, MaxText)

\* processBatchRequest reads the delay and later waits between two items.
CallDelay(batchDelay) ==
    /\ call.fn = "none"
    /\ call' = [fn |-> "delay", batchDelay |-> batchDelay,
                delay |-> DelayOf(batchDelay),
                timeout |-> TimeoutOf(DelayOf(batchDelay))]
    /\ UNCHANGED <<chatHandles, page, handlerWebsocket, websocket, sessionId, linkBuilderWebSocket,
                   linkBuilderSessionId, sockets, requests, flows>>

NextDelay ==
    /\ call.fn = "none"
    /\ \E batchDelay \in BatchDelays : CallDelay(batchDelay)

SpecDelay == InitPure /\ [][NextDelay]_vars

\* ------------------------------------------- app_ua: the link builder form

InitUa == page = "app_ua" /\ InitCommon

\* The close codes a close event can carry.  onclose tells 1000 and 1001
\* (handled alike) from every other code; 1006 stands for the others.
CloseCodes == {1000, 1006}

\* if (event.code !== 1000 && event.code !== 1001) reject(...)
RejectsOnClose(code) == code \notin {1000, 1001}

\* clearTimeout(timeout): cancels a timer that has not fired.
ClearTimeout(timer) == IF timer = "armed" THEN "cleared" ELSE timer

\* Variant of AfterConnect: the connect is not wrapped in its own try/catch,
\* so a rejection goes to the outer catch and no request is sent.
AfterConnectUnguarded(fl, how, error) ==
    IF how = "rejected"
    THEN [fl EXCEPT !.wsPromise = how, !.wsError = error, !.pc = "done",
                    !.shown = "error"]
    ELSE [fl EXCEPT !.wsPromise = how, !.wsError = error, !.pc = "fetch"]

\* The code after `await connectLinkBuilderWebSocket()` in its try/catch:
\* both the resolved and the rejected branch fall through to the request.
AfterConnect(fl, how, error) ==
    [fl EXCEPT !.wsPromise = how, !.wsError = error, !.pc = "fetch"]

\* resolve() / reject(error) of the connect promise: the first call settles it
\* and wakes the handler, later calls do nothing.
Settle(fl, how, error) ==
    IF fl.wsPromise = "pending" THEN AfterConnect(fl, how, error) ELSE fl

\* requestFormData.append('session_id', linkBuilderSessionId); fetch('/process').
LinkRequest(f) ==
    [item |-> 1, session_id |-> linkBuilderSessionId, ws |-> <<f, 1>>,
     status |-> "pending", body |-> "none"]

\* The requests after a segment in which flow f ran from fl to its next state.
RequestsAfter(f, before, after) ==
    IF before.pc = "connect" /\ after.pc = "fetch"
    THEN requests @@ (NextRequest(f) :> LinkRequest(f))
    ELSE requests

\* finally { if (linkBuilderWebSocket) { linkBuilderWebSocket.close();
\*                                       linkBuilderWebSocket = null; } }
LinkFinally ==
    /\ sockets' = CloseIfSet(sockets, linkBuilderWebSocket)
    /\ linkBuilderWebSocket' = Null

\* Submit of the link builder form.  Without a file: alert and return from
\* inside the try, so the finally block runs.  With a file: a new session
\* identifier, then the executor of connectLinkBuilderWebSocket (new socket in
\* the module-level handle, 5 s timer armed), then the await.
LinkBuilderSubmit(f, hasFile) ==
    /\ page = "app_ua"
    /\ NextIdle(f)
    /\ WithinBudget(1)
    /\ IF ~hasFile
       THEN /\ flows' = [flows EXCEPT ![f].kind = "link", ![f].pc = "done",
                                      ![f].alerts = 1, ![f].shown = "alert"]
            /\ LinkFinally
            /\ UNCHANGED linkBuilderSessionId
       ELSE /\ linkBuilderSessionId' = GenerateSessionId(f, flows[f])
            /\ linkBuilderWebSocket' = NextSocket(f)
            /\ sockets' = ConnectWebSocket(f, linkBuilderSessionId')
            /\ flows' = [flows EXCEPT ![f].kind = "link", ![f].pc = "connect",
                                      ![f].ids = 1, ![f].wsPromise = "pending",
                                      ![f].timer = "armed"]
    /\ UNCHANGED <<chatHandles, call, page, handlerWebsocket, websocket, sessionId, requests>>

\* onopen: clearTimeout(timeout); resolve().
OnOpen(fl) == Settle([fl EXCEPT !.timer = ClearTimeout(fl.timer)], "resolved", "")

\* The open event of a link builder socket.
LinkSocketOpens(w) ==
    /\ page = "app_ua"
    /\ SocketOpens(w)
    /\ LET f == w[1]
           after == OnOpen(flows[f])
       IN  /\ flows' = [flows EXCEPT ![f] = after]
           /\ requests' = RequestsAfter(f, flows[f], after)
    /\ UNCHANGED <<chatHandles, call, page, handlerWebsocket, websocket, sessionId, linkBuilderWebSocket,
                   linkBuilderSessionId>>

\* onerror: clearTimeout(timeout).  onclose: clearTimeout(timeout);
\* linkBuilderWebSocket = null; reject unless the code is 1000 or 1001.
OnClose(fl, code) ==
    LET cleared == [fl EXCEPT !.timer = ClearTimeout(fl.timer)]
    IN  IF RejectsOnClose(code) THEN Settle(cleared, "rejected", "closed")
        ELSE cleared

\* The handle after onclose of any socket: linkBuilderWebSocket = null.
HandleAfterClose(handle, w) == Null

\* The close event of a link builder socket: after a failed handshake or a
\* broken connection (then the error event precedes it in the same task; all
\* onerror does is repeated by onclose), after a close by the peer, or at the
\* end of a close().
LinkSocketCloses(w, code) ==
    /\ page = "app_ua"
    /\ sockets[w].readyState # "CLOSED"
    /\ sockets' = [sockets EXCEPT ![w].readyState = "CLOSED"]
    /\ linkBuilderWebSocket' = HandleAfterClose(linkBuilderWebSocket, w)
    /\ LET f == w[1]
           after == OnClose(flows[f], code)
       IN  /\ flows' = [flows EXCEPT ![f] = after]
           /\ requests' = RequestsAfter(f, flows[f], after)
    /\ UNCHANGED <<chatHandles, call, page, handlerWebsocket, websocket, sessionId, linkBuilderSessionId>>

\* The condition of the timer callback:
\* linkBuilderWebSocket && linkBuilderWebSocket.readyState !== WebSocket.OPEN
TimeoutApplies(f) ==
    /\ linkBuilderWebSocket # Null
    /\ sockets[linkBuilderWebSocket].readyState # "OPEN"

\* The 5 s timer of flow f's connect attempt fires: if the condition holds,
\* linkBuilderWebSocket.close() and reject(new Error('... timeout')).
LinkTimeout(f) ==
    /\ page = "app_ua"
    /\ flows[f].timer = "armed"
    /\ LET fired == [flows[f] EXCEPT
                        !.timer = "fired",
                        !.firedOpen = (sockets[<<f, 1>>].readyState = "OPEN")]
           after == IF TimeoutApplies(f)
                    THEN Settle(fired, "rejected", "timeout")
                    ELSE fired
       IN  /\ flows' = [flows EXCEPT ![f] = after]
           /\ requests' = RequestsAfter(f, flows[f], after)
           /\ sockets' = IF TimeoutApplies(f)
                         THEN CloseIfSet(sockets, linkBuilderWebSocket)
                         ELSE sockets
    /\ UNCHANGED <<chatHandles, call, page, handlerWebsocket, websocket, sessionId, linkBuilderWebSocket,
                   linkBuilderSessionId>>

\* The fetch of the link builder settles: a rejection or a non-OK status goes
\* to the catch (error message), then the finally block.
LinkFetchSettles(f, outcome) ==
    /\ page = "app_ua"
    /\ flows[f].kind = "link"
    /\ flows[f].pc = "fetch"
    /\ IF outcome = "ok"
       THEN /\ requests' = [requests EXCEPT ![<<f, 1>>].status = "ok_headers"]
            /\ flows' = [flows EXCEPT ![f].pc = "json"]
            /\ UNCHANGED <<sockets, linkBuilderWebSocket>>
       ELSE /\ requests' = [requests EXCEPT ![<<f, 1>>].status = outcome]
            /\ flows' = [flows EXCEPT ![f].pc = "done", ![f].shown = "error"]
            /\ LinkFinally
    /\ UNCHANGED <<chatHandles, call, page, handlerWebsocket, websocket, sessionId, linkBuilderSessionId>>

\* response.json() settles, then displayLinkBuilderResults(result, results),
\* which reads result.status and throws on null; a throw goes to the catch.
LinkJsonSettles(f, body) ==
    /\ page = "app_ua"
    /\ flows[f].kind = "link"
    /\ flows[f].pc = "json"
    /\ requests' = [requests EXCEPT
                       ![<<f, 1>>].status = IF body = "unparsable"
                                            THEN "unparsable" ELSE "ok",
                       ![<<f, 1>>].body = IF body = "unparsable"
                                          THEN "none" ELSE body]
    /\ flows' = [flows EXCEPT
                    ![f].pc = "done",
                    ![f].shown = IF body = "object" THEN "results" ELSE "error"]
    /\ LinkFinally
    /\ UNCHANGED <<chatHandles, call, page, handlerWebsocket, websocket, sessionId, linkBuilderSessionId>>

NextUa ==
    \/ \E f \in Flows, hasFile \in BOOLEAN : LinkBuilderSubmit(f, hasFile)
    \/ \E w \in DOMAIN sockets : LinkSocketOpens(w)
    \/ \E w \in DOMAIN sockets, code \in CloseCodes : LinkSocketCloses(w, code)
    \/ \E f \in Flows : LinkTimeout(f)
    \/ \E f \in Flows, o \in FetchOutcomes : LinkFetchSettles(f, o)
    \/ \E f \in Flows, b \in JsonOutcomes : LinkJsonSettles(f, b)

SpecUa == InitUa /\ [][NextUa]_vars

\* The browser ends every handshake and completes every close(): the
\* connecting socket of flow f opens or closes with some code, its closing
\* socket closes.
HandshakeEnds(f) ==
    /\ <<f, 1>> \in DOMAIN sockets
    /\ sockets[<<f, 1>>].readyState \in {"CONNECTING", "CLOSING"}
    /\ \/ LinkSocketOpens(<<f, 1>>)
       \/ \E code \in CloseCodes : LinkSocketCloses(<<f, 1>>, code)

\* Every handshake ends, every armed timer fires unless it is cancelled, and
\* every HTTP call settles.
FairnessUa ==
    \A f \in Flows :
        /\ WF_vars(HandshakeEnds(f))
        /\ WF_vars(LinkTimeout(f))
        /\ WF_vars(\E o \in FetchOutcomes : LinkFetchSettles(f, o))
        /\ WF_vars(\E b \in JsonOutcomes : LinkJsonSettles(f, b))

SpecUaLive == InitUa /\ [][NextUa]_vars /\ FairnessUa

\* Either page.
SpecPages == (InitApp \/ InitUa) /\ [][NextApp \/ NextUa]_vars

\* ---------------------------------------------------- app_ua: the chat

\* chatInput.disabled = true; sendButton.disabled = true (lines 766-767) until
\* the finally block (850-852): no message is sent while another is handled.
ChatBusy == \E g \in Flows : flows[g].kind = "chat" /\ flows[g].pc # "done"

\* body: JSON.stringify({user_query: message, session_id: chatSessionId});
\* fetch('/process').  The bindings are read when the request is made.
ChatRequest(sid, handle) ==
    [item |-> 1, session_id |-> sid, ws |-> handle,
     status |-> "pending", body |-> "none"]

\* Variant of ChatSessionIdFor: every message draws a new identifier.
ChatSessionIdFresh(f, fl) == GenerateSessionId(f, fl)

\* if (!chatSessionId) { chatSessionId = generateSessionId(); }
ChatSessionIdFor(f, fl) ==
    IF chatSessionId = Null THEN GenerateSessionId(f, fl) ELSE chatSessionId

\* !chatWebSocket || chatWebSocket.readyState !== WebSocket.OPEN
ChatNeedsConnect ==
    \/ chatWebSocket = Null
    \/ sockets[chatWebSocket].readyState # "OPEN"

\* sendMessage.  Without a text it returns at once.  Otherwise: the session
\* identifier is drawn if there is none; with no open socket, the executor of
\* connectChatWebSocket (new socket for the identifier in the module-level
\* handle) and the await; with an open socket, the request at once.
SendMessage(f, hasText) ==
    /\ page = "app_ua"
    /\ NextIdle(f)
    /\ WithinBudget(1)
    /\ ~ChatBusy
    /\ IF ~hasText
       THEN /\ flows' = [flows EXCEPT ![f].kind = "chat", ![f].pc = "done"]
            /\ UNCHANGED <<chatSessionId, chatWebSocket, sockets, requests>>
       ELSE /\ chatSessionId' = ChatSessionIdFor(f, flows[f])
            /\ IF ChatNeedsConnect
               THEN /\ chatWebSocket' = NextSocket(f)
                    /\ sockets' = ConnectWebSocket(f, chatSessionId')
                    /\ flows' = [flows EXCEPT ![f].kind = "chat",
                                              ![f].pc = "connect",
                                              ![f].ids = 1,
                                              ![f].wsPromise = "pending"]
                    /\ UNCHANGED requests
               ELSE /\ requests' = requests @@
                          (NextRequest(f) :> ChatRequest(chatSessionId', chatWebSocket))
                    /\ flows' = [flows EXCEPT ![f].kind = "chat",
                                              ![f].pc = "fetch", ![f].ids = 1]
                    /\ UNCHANGED <<chatWebSocket, sockets>>
    /\ UNCHANGED <<call, page, websocket, handlerWebsocket, sessionId,
                   linkBuilderWebSocket, linkBuilderSessionId>>

\* chatWebSocket.onopen: resolve(); the awaiting sendMessage goes on to its
\* request.
ChatSocketOpens(w) ==
    /\ page = "app_ua"
    /\ flows[w[1]].kind = "chat"
    /\ SocketOpens(w)
    /\ LET f == w[1]
       IN  IF flows[f].wsPromise = "pending"
           THEN /\ flows' = [flows EXCEPT ![f].wsPromise = "resolved",
                                          ![f].pc = "fetch"]
                /\ requests' = requests @@
                      (NextRequest(f) :> ChatRequest(chatSessionId, chatWebSocket))
           ELSE UNCHANGED <<flows, requests>>
    /\ UNCHANGED <<chatHandles, call, page, websocket, handlerWebsocket,
                   sessionId, linkBuilderWebSocket, linkBuilderSessionId>>

\* The close event of a chat socket: a failed handshake or a broken
\* connection (the error event precedes it in the same task), a close by the
\* peer, or the end of a close().  chatWebSocket.onerror: reject(error), which
\* takes an awaiting sendMessage to its catch (an error message in the chat)
\* and finally; a socket that was open has settled its promise before.
\* chatWebSocket.onclose: console.log only.
ChatSocketCloses(w) ==
    /\ page = "app_ua"
    /\ flows[w[1]].kind = "chat"
    /\ sockets[w].readyState # "CLOSED"
    /\ sockets' = [sockets EXCEPT ![w].readyState = "CLOSED"]
    /\ LET f == w[1]
       IN  IF flows[f].wsPromise = "pending"
           THEN flows' = [flows EXCEPT ![f].wsPromise = "rejected",
                                       ![f].wsError = "error event",
                                       ![f].pc = "done", ![f].shown = "error"]
           ELSE UNCHANGED flows
    /\ UNCHANGED <<chatHandles, call, page, websocket, handlerWebsocket,
                   sessionId, linkBuilderWebSocket, linkBuilderSessionId,
                   requests>>

\* clearChat, confirmed: chatSessionId = null;
\* if (chatWebSocket) { chatWebSocket.close(); chatWebSocket = null; }
ClearChat ==
    /\ page = "app_ua"
    /\ chatSessionId' = Null
    /\ sockets' = CloseIfSet(sockets, chatWebSocket)
    /\ chatWebSocket' = Null
    /\ UNCHANGED <<call, page, websocket, handlerWebsocket, sessionId,
                   linkBuilderWebSocket, linkBuilderSessionId, requests, flows>>

\* The fetch of a chat message settles: a rejection or a non-OK status goes
\* to the catch (an error message in the chat), then the finally block.
ChatFetchSettles(f, outcome) ==
    /\ page = "app_ua"
    /\ flows[f].kind = "chat"
    /\ flows[f].pc = "fetch"
    /\ IF outcome = "ok"
       THEN /\ requests' = [requests EXCEPT ![<<f, 1>>].status = "ok_headers"]
            /\ flows' = [flows EXCEPT ![f].pc = "json"]
       ELSE /\ requests' = [requests EXCEPT ![<<f, 1>>].status = outcome]
            /\ flows' = [flows EXCEPT ![f].pc = "done", ![f].shown = "error"]
    /\ UNCHANGED <<chatHandles, call, page, websocket, handlerWebsocket,
                   sessionId, linkBuilderWebSocket, linkBuilderSessionId,
                   sockets>>

\* response.json() settles, then displayChatResult(result); a throw goes to
\* the catch.  Then the finally block.
ChatJsonSettles(f, body) ==
    /\ page = "app_ua"
    /\ flows[f].kind = "chat"
    /\ flows[f].pc = "json"
    /\ requests' = [requests EXCEPT
                       ![<<f, 1>>].status = IF body = "unparsable"
                                            THEN "unparsable" ELSE "ok",
                       ![<<f, 1>>].body = IF body = "unparsable"
                                          THEN "none" ELSE body]
    /\ flows' = [flows EXCEPT
                    ![f].pc = "done",
                    ![f].shown = IF body = "object" THEN "results" ELSE "error"]
    /\ UNCHANGED <<chatHandles, call, page, websocket, handlerWebsocket,
                   sessionId, linkBuilderWebSocket, linkBuilderSessionId,
                   sockets>>

NextChat ==
    \/ \E f \in Flows, hasText \in BOOLEAN : SendMessage(f, hasText)
    \/ \E w \in DOMAIN sockets : ChatSocketOpens(w)
    \/ \E w \in DOMAIN sockets : ChatSocketCloses(w)
    \/ ClearChat
    \/ \E f \in Flows, o \in FetchOutcomes : ChatFetchSettles(f, o)
    \/ \E f \in Flows, b \in JsonOutcomes : ChatJsonSettles(f, b)

SpecChat == InitUa /\ [][NextChat]_vars

\* --------------------------------- simple_app: the batch form of the simple
\* --------------------------------- meta generator

InitSimple == page = "simple" /\ InitCommon

\* finally { progress.style.display = 'none';
\*           if (websocket) { websocket.close(); websocket = null; } }
\* The handler is defined inside the DOMContentLoaded callback, so its
\* `websocket` is the binding declared there (line 14).
SimpleFinally ==
    /\ sockets' = CloseIfSet(sockets, handlerWebsocket)
    /\ handlerWebsocket' = Null

\* body: JSON.stringify({requests, session_id: sessionId}); fetch('/generate-batch').
SimpleRequest(f, w) ==
    [item |-> 1, session_id |-> sockets[w].url, ws |-> w,
     status |-> "pending", body |-> "none"]

\* Submit of the batch form.  Unequal numbers of URL and keyword lines: throw
\* inside the try, so catch (displayError) and finally run.  Otherwise a
\* session identifier, then the executor of connectWebSocket: the function
\* is declared at the top level of the script, where no `websocket` is
\* declared, so `websocket = new WebSocket(wsUrl)` assigns the global
\* binding; then the await.
SimpleSubmit(f, matching) ==
    /\ page = "simple"
    /\ NextIdle(f)
    /\ WithinBudget(1)
    /\ IF ~matching
       THEN /\ flows' = [flows EXCEPT ![f].kind = "simple", ![f].pc = "done",
                                      ![f].shown = "error"]
            /\ SimpleFinally
            /\ UNCHANGED websocket
       ELSE /\ websocket' = NextSocket(f)
            /\ sockets' = ConnectWebSocket(f, GenerateSessionId(f, flows[f]))
            /\ flows' = [flows EXCEPT ![f].kind = "simple", ![f].pc = "connect",
                                      ![f].ids = 1, ![f].wsPromise = "pending"]
            /\ UNCHANGED handlerWebsocket
    /\ UNCHANGED <<chatHandles, call, page, sessionId, linkBuilderWebSocket,
                   linkBuilderSessionId, requests>>

\* websocket.onopen: resolve().  The handler goes on to the fetch.
SimpleSocketOpens(w) ==
    /\ page = "simple"
    /\ SocketOpens(w)
    /\ LET f == w[1]
       IN  IF flows[f].wsPromise = "pending"
           THEN /\ flows' = [flows EXCEPT ![f].wsPromise = "resolved",
                                          ![f].pc = "fetch"]
                /\ requests' = requests @@ (NextRequest(f) :> SimpleRequest(f, w))
           ELSE UNCHANGED <<flows, requests>>
    /\ UNCHANGED <<chatHandles, call, page, websocket, handlerWebsocket, sessionId,
                   linkBuilderWebSocket, linkBuilderSessionId>>

\* The connection fails (handshake or established connection): the error
\* event, then the close event in the same task.  websocket.onerror:
\* reject(error); a pending await throws into the catch (displayError), then
\* the finally block.  websocket.onclose: console.log only.
SimpleSocketFails(w) ==
    /\ page = "simple"
    /\ sockets[w].readyState \in {"CONNECTING", "OPEN"}
    /\ LET f == w[1]
           closed == [sockets EXCEPT ![w].readyState = "CLOSED"]
       IN  IF flows[f].wsPromise = "pending"
           THEN /\ flows' = [flows EXCEPT ![f].wsPromise = "rejected",
                                          ![f].wsError = "error event",
                                          ![f].pc = "done",
                                          ![f].shown = "error"]
                /\ sockets' = CloseIfSet(closed, handlerWebsocket)
                /\ handlerWebsocket' = Null
           ELSE /\ sockets' = closed
                /\ UNCHANGED <<flows, handlerWebsocket>>
    /\ UNCHANGED <<chatHandles, call, page, websocket, sessionId, linkBuilderWebSocket,
                   linkBuilderSessionId, requests>>

\* The peer closes an established connection: websocket.onclose,
\* console.log only.
SimpleSocketCloses(w) ==
    /\ page = "simple"
    /\ sockets[w].readyState = "OPEN"
    /\ sockets' = [sockets EXCEPT ![w].readyState = "CLOSED"]
    /\ UNCHANGED <<chatHandles, call, page, websocket, handlerWebsocket, sessionId,
                   linkBuilderWebSocket, linkBuilderSessionId, requests, flows>>

\* The fetch of /generate-batch settles: a rejection or a non-OK status goes
\* to the catch (displayError), then the finally block.
SimpleFetchSettles(f, outcome) ==
    /\ page = "simple"
    /\ flows[f].kind = "simple"
    /\ flows[f].pc = "fetch"
    /\ IF outcome = "ok"
       THEN /\ requests' = [requests EXCEPT ![<<f, 1>>].status = "ok_headers"]
            /\ flows' = [flows EXCEPT ![f].pc = "json"]
            /\ UNCHANGED <<sockets, handlerWebsocket>>
       ELSE /\ requests' = [requests EXCEPT ![<<f, 1>>].status = outcome]
            /\ flows' = [flows EXCEPT ![f].pc = "done", ![f].shown = "error"]
            /\ SimpleFinally
    /\ UNCHANGED <<chatHandles, call, page, websocket, sessionId, linkBuilderWebSocket,
                   linkBuilderSessionId>>

\* response.json() settles, then displayBatchResults(result), which reads
\* result.results and throws on null; a throw goes to the catch.  Then the
\* finally block.
SimpleJsonSettles(f, body) ==
    /\ page = "simple"
    /\ flows[f].kind = "simple"
    /\ flows[f].pc = "json"
    /\ requests' = [requests EXCEPT
                       ![<<f, 1>>].status = IF body = "unparsable"
                                            THEN "unparsable" ELSE "ok",
                       ![<<f, 1>>].body = IF body = "unparsable"
                                          THEN "none" ELSE body]
    /\ flows' = [flows EXCEPT
                    ![f].pc = "done",
                    ![f].shown = IF body = "object" THEN "results" ELSE "error"]
    /\ SimpleFinally
    /\ UNCHANGED <<chatHandles, call, page, websocket, sessionId, linkBuilderWebSocket,
                   linkBuilderSessionId>>

NextSimple ==
    \/ \E f \in Flows, matching \in BOOLEAN : SimpleSubmit(f, matching)
    \/ \E w \in DOMAIN sockets : SimpleSocketOpens(w)
    \/ \E w \in DOMAIN sockets : SimpleSocketFails(w)
    \/ \E w \in DOMAIN sockets : SimpleSocketCloses(w)
    \/ \E f \in Flows, o \in FetchOutcomes : SimpleFetchSettles(f, o)
    \/ \E f \in Flows, b \in JsonOutcomes : SimpleJsonSettles(f, b)

SpecSimple == InitSimple /\ [][NextSimple]_vars

\* ===================================================================== claims

\* The entries of flow record fl's outcome list recorded for item j.
OutcomesOf(fl, j) ==
    {k \in 1..Len(fl.batchResults) : fl.batchResults[k].url = fl.batchData[j].url}

\* The requests flow f issued for item j.
RequestsFor(f, j) ==
    {r \in DOMAIN requests : r[1] = f /\ requests[r].item = j}

BatchFlows == {f \in Flows : flows[f].kind = "batch"}

\* C1: in processBatchRequest the outcome list never holds more entries than
\* there are items, and when the loop has ended it holds exactly one entry per
\* item, in item order (outcomes[i].url = items[i].url).
C1_OneOutcomePerItem ==
    \A f \in BatchFlows :
        LET fl == flows[f] IN
        /\ Len(fl.batchResults) <= Len(fl.batchData)
        /\ fl.pc = "done" =>
              /\ Len(fl.batchResults) = Len(fl.batchData)
              /\ \A k \in 1..Len(fl.batchData) :
                    fl.batchResults[k].url = fl.batchData[k].url

C3_FailureRecorded ==
    \A f \in BatchFlows :
        \A r \in DOMAIN requests :
            (r[1] = f /\ requests[r].status \in {"not_ok", "unparsable"}) =>
                LET fl == flows[f]
                    j == requests[r].item
                IN  /\ Cardinality(OutcomesOf(fl, j)) = 1
                    /\ \A k \in OutcomesOf(fl, j) :
                          /\ ~fl.batchResults[k].success
                          /\ fl.batchResults[k].error =
                                (IF requests[r].status = "not_ok"
                                 THEN "request processing error"
                                 ELSE "SyntaxError")
                    /\ Cardinality(RequestsFor(f, j)) = 1

\* A batch whose second item got an unparsable body, recorded as its failure.
C3_Witness ==
    \E f \in BatchFlows :
        /\ <<f, 2>> \in DOMAIN requests
        /\ requests[<<f, 2>>].status = "unparsable"
        /\ flows[f].batchResults[Len(flows[f].batchResults)].error = "SyntaxError"

\* The requests of flow f that have not settled.
InFlight(f) ==
    {r \in DOMAIN requests :
        r[1] = f /\ requests[r].status \in {"pending", "ok_headers"}}

\* C4: within one batch run at most one request is in flight, and a request
\* for an item is issued only after every earlier item has an outcome.
C4_OneAtATime ==
    \A f \in BatchFlows :
        /\ Cardinality(InFlight(f)) <= 1
        /\ \A r \in DOMAIN requests :
              r[1] = f =>
                 \A j \in 1..(requests[r].item - 1) :
                     /\ OutcomesOf(flows[f], j) # {}
                     /\ RequestsFor(f, j) \cap InFlight(f) = {}

\* The request for the second item of a batch is in flight.
C4_Witness ==
    \E f \in BatchFlows :
        /\ <<f, 2>> \in InFlight(f)
        /\ requests[<<f, 2>>].item = 2

\* The flows that are between their start and their end.
ActiveFlows == {f \in Flows : flows[f].pc \notin {"idle", "done"}}

\* C5: across all user actions there is never more than one outstanding
\* processing step: no second flow issues a request or reassigns websocket /
\* sessionId while another flow awaits its response or its delay.
C5_SingleControlFlow == Cardinality(ActiveFlows) <= 1

\* The sockets flow f created.
SocketsOf(f) == {w \in DOMAIN sockets : w[1] = f}

\* C6: the WebSocket of a batch item is explicitly closed once the HTTP
\* response of the item has been received, success or failure, and it is
\* closed before the channel of the next item is opened.
C6_SocketClosedPerItem ==
    \A f \in BatchFlows :
        /\ \A r \in DOMAIN requests :
              (r[1] = f /\ requests[r].status \notin {"pending", "ok_headers"}) =>
                  sockets[requests[r].ws].closeCalled
        /\ \A w \in SocketsOf(f) :
              w[2] < Cardinality(SocketsOf(f)) => sockets[w].closeCalled

\* C7: the session_id in the body of a request of the main page equals the
\* session id in the URL of the WebSocket opened for that request, and each
\* request of a submission has an id and a WebSocket of its own.
C7_SessionIdMatchesSocket ==
    page = "app" =>
        /\ \A r \in DOMAIN requests :
              /\ requests[r].ws \in DOMAIN sockets
              /\ requests[r].session_id = sockets[requests[r].ws].url
        /\ \A r1, r2 \in DOMAIN requests :
              r1 # r2 =>
                 /\ requests[r1].ws # requests[r2].ws
                 /\ requests[r1].session_id # requests[r2].session_id

\* One batch has sent the requests of two items.
C7_Witness ==
    \E f \in BatchFlows :
        /\ <<f, 2>> \in DOMAIN requests
        /\ requests[<<f, 2>>].item = 2
        /\ requests[<<f, 2>>].session_id # requests[<<f, 1>>].session_id

LinkFlows == {f \in Flows : flows[f].kind = "link"}

C9_TimeoutClosesAndRejects ==
    \A f \in LinkFlows :
        flows[f].timer = "fired" =>
            /\ ~flows[f].firedOpen
            /\ sockets[<<f, 1>>].closeCalled
            /\ flows[f].wsPromise = "rejected"
            /\ flows[f].wsError = "timeout"

\* The sequence <<0, 1, ..., k - 1>>.
UpTo(k) == [j \in 1..k |-> j - 1]

\* C10: the pause is awaited after each item of a batch except the last:
\* while item i is processed the pauses taken are those after items 0..i-1,
\* and when the loop has ended they are those after items 0..N-2.
C10_DelayBetweenItems ==
    \A f \in BatchFlows :
        LET fl == flows[f]
            n == Len(fl.batchData)
        IN  /\ fl.pc \in {"fetch", "json"} => fl.delays = UpTo(fl.i)
            /\ fl.pc = "delay" => fl.delays = UpTo(fl.i + 1) /\ fl.i < n - 1
            /\ (fl.pc = "done" /\ n > 0) => fl.delays = UpTo(n - 1)

\* A batch of two items has ended after one pause, the one after item 0.
C10_Witness ==
    \E f \in BatchFlows :
        /\ flows[f].pc = "done"
        /\ Len(flows[f].batchData) = 2
        /\ Len(flows[f].batchResults) >= 2
        /\ flows[f].delays = <<0>>

\* C11: processBatchRequest stops before the loop only for a pre-flight
\* failure (missing input or empty parsed list), and then it has alerted the
\* user and has opened no WebSocket, issued no request and recorded no
\* outcome; with a non-empty item list the loop always starts.
C11_PreflightOnly ==
    \A f \in BatchFlows :
        LET fl == flows[f] IN
        /\ (fl.pc = "done" /\ fl.preflight # "passed") =>
              /\ fl.preflight \in {"missing", "empty"}
              /\ fl.alerts = 1
              /\ SocketsOf(f) = {}
              /\ RequestsFor(f, 1) = {}
              /\ fl.batchResults = <<>>
        /\ Len(fl.batchData) > 0 =>
              /\ fl.preflight = "passed"
              /\ RequestsFor(f, 1) # {}

\* The summary of flow f has been emitted, once, after every item was tried.
SummaryEmitted(f) ==
    /\ flows[f].pc = "done"
    /\ Len(flows[f].summary) = 1
    /\ \A j \in 1..Len(flows[f].batchData) : RequestsFor(f, j) # {}

\* C12: once the loop of a batch has started, and provided every HTTP call
\* settles, the batch eventually has tried all its items and has emitted the
\* final summary; the summary is never emitted twice, nor before the end.
C12_RunsToCompletion ==
    /\ [](\A f \in Flows :
             /\ Len(flows[f].summary) <= 1
             /\ Len(flows[f].summary) = 1 => flows[f].pc = "done")
    /\ \A f \in Flows :
          (flows[f].kind = "batch" /\ flows[f].preflight = "passed")
              ~> SummaryEmitted(f)

\* A batch of two items has ended with a summary in which both have failed.
C12_Witness ==
    \E f \in BatchFlows :
        /\ SummaryEmitted(f)
        /\ Len(flows[f].batchData) = 2
        /\ flows[f].summary[1] = [total |-> 2, ok |-> 0, failed |-> 2]

\* C13: after the last item of a batch of N items the reported totals
\* satisfy successes + failures = total = N with N > 0, and they are
\* computed when every item has an outcome.
C13_TotalsMatchItems ==
    \A f \in BatchFlows :
        Len(flows[f].summary) > 0 =>
            LET fl == flows[f]
                n == Len(fl.batchData)
                t == fl.summary[1]
            IN  /\ n > 0
                /\ t.total = n
                /\ t.ok + t.failed = n
                /\ \A j \in 1..n : OutcomesOf(fl, j) # {}

\* text.split('\n') of the text as it was entered.
RawLines(text) == Split(text, "\n")

\* The lines of the text that are not blank, in their order.
NonBlankRaw(text) == SelectSeq(RawLines(text), NonBlank)

\* The last path segment of a URL.
LastSegment(url) == LET segs == Split(url, "/") IN segs[Len(segs)]

\* The segment holds a Latin letter, a Cyrillic letter or a digit.
HasLetterOrDigit(seg) ==
    \E k \in 1..Len(seg) :
        seg[k] \in LatinTokens \cup RangeCyrillicTokens
                     \cup {"1", "<i>", "<yo>", "<cina>"}

\* Number of lines of the keyword list as entered (0 when absent).
KeywordLineCount(keywordsList) ==
    IF keywordsList = <<>> THEN 0 ELSE Len(RawLines(keywordsList))

\* C14: parseSimpleList returns one item per non-blank line of the URL list,
\* in URL order; every topic is non-empty, and an item beyond the end of the
\* keyword list has the topic derived from its URL, which is "Page" when the
\* last path segment holds no Latin letter, Cyrillic letter or digit.
C14_OneItemPerUrl ==
    call.fn = "parseSimpleList" =>
        LET lines == NonBlankRaw(call.urlList)
            kwCount == KeywordLineCount(call.keywordsList)
        IN  /\ Len(call.result) = Len(lines)
            /\ \A i \in 1..Len(lines) :
                  /\ call.result[i].url = Trim(lines[i])
                  /\ call.result[i].topic # <<>>
                  /\ Trim(call.result[i].topic) = call.result[i].topic
                  /\ i > kwCount =>
                        /\ call.result[i].topic = DerivedTopic(Trim(lines[i]))
                        /\ ~HasLetterOrDigit(LastSegment(Trim(lines[i]))) =>
                              call.result[i].topic = <<"Page">>

\* Two URLs and one keyword: the second item has the derived topic "Page".
C14_Witness ==
    /\ call.fn = "parseSimpleList"
    /\ Len(call.result) = 2
    /\ KeywordLineCount(call.keywordsList) = 1
    /\ call.result[1].topic = <<"buy">>
    /\ call.result[2].topic = <<"Page">>

\* C15: in parseSimpleList the keyword list is parallel to the URL list: the
\* item of the URL on line i has the keyword of line i as topic when that
\* line is not blank, and the topic derived from its URL when that line is
\* blank or missing (stated for URL lists without blank lines).
C15_KeywordsParallel ==
    call.fn = "parseSimpleList" =>
        LET urlLines == RawLines(call.urlList)
            kwLines == RawLines(call.keywordsList)
        IN  (\A i \in 1..Len(urlLines) : NonBlank(urlLines[i])) =>
                /\ Len(call.result) = Len(urlLines)
                /\ \A i \in 1..Len(urlLines) :
                      call.result[i].topic =
                          (IF i <= Len(kwLines) /\ NonBlank(kwLines[i])
                           THEN Trim(kwLines[i])
                           ELSE DerivedTopic(Trim(urlLines[i])))

\* Number of comma-separated fields of a line.
FieldCount(line) == 1 + Cardinality({k \in 1..Len(line) : line[k] = ","})

\* The line is a header: its first characters, blanks apart, are `url,`.
IsHeaderLine(line) ==
    LET l == Trim(line) IN Len(l) >= 2 /\ l[1] = "url" /\ l[2] = ","

\* A line parseCSV must turn into an item.
IsDataLine(line) == NonBlank(line) /\ ~IsHeaderLine(line) /\ FieldCount(line) >= 2

DataLines(text) == SelectSeq(RawLines(text), IsDataLine)

\* C16: parseCSV returns one item per non-blank line with at least two
\* comma-separated fields that is not a header line starting with `url,`, in
\* the order of the lines, with the first two fields as url and topic.
C16_OneItemPerDataLine ==
    call.fn = "parseCSV" =>
        LET rows == DataLines(call.csvText)
        IN  /\ Len(call.result) = Len(rows)
            /\ \A k \in 1..Len(rows) :
                  /\ call.result[k].url = Trim(Split(rows[k], ",")[1])
                  /\ call.result[k].topic = Trim(Split(rows[k], ",")[2])

\* A header line and a line of one field are dropped, the data line is kept.
C16_Witness ==
    /\ call.fn = "parseCSV"
    /\ call.csvText = <<"url", ",", "a", "\n", "a", ",", "a", ",", "rowbrand",
                        ",", "rowtype">>
    /\ Len(call.result) = 1
    /\ call.result[1].topic = <<"a">>

\* The string x occurs in the string q.
Embeds(q, x) ==
    \E i \in 1..(Len(q) - Len(x) + 1) : SubSeq(q, i, i + Len(x) - 1) = x

\* The field of a row at index k (from 0) when present and not empty, or
\* else the form-level value.
RowOrForm(line, k, formValue) ==
    LET fields == Split(Trim(line), ",")
    IN  IF k + 1 <= Len(fields) /\ Trim(fields[k + 1]) # <<>>
        THEN Trim(fields[k + 1])
        ELSE formValue

\* C17: in parseCSV with generation mode chatgpt or meta_only the instruction
\* of every accepted row embeds a brand name and a business type: the fields
\* of the row at index 2 and 3 when present, else the form-level values.
C17_BrandInInstruction ==
    (call.fn = "parseCSV" /\ call.generationMode \in {"chatgpt", "meta_only"}) =>
        LET rows == DataLines(call.csvText)
        IN  \A k \in 1..Len(rows) :
                LET brand == RowOrForm(rows[k], 2, call.brandName)
                    business == RowOrForm(rows[k], 3, call.businessType)
                    query == call.result[k].user_query
                IN  /\ brand # <<>> => Embeds(query, brand)
                    /\ business # <<>> => Embeds(query, business)

\* C18: every item of parseSimpleList and parseCSV carries a user_query and
\* a detected language, and carries target_audience exactly when the
\* supplied target audience is not blank.
C18_ItemFields ==
    call.fn \in {"parseSimpleList", "parseCSV"} =>
        \A k \in 1..Len(call.result) :
            LET item == call.result[k]
            IN  /\ "user_query" \in DOMAIN item
                /\ item.user_query # <<>>
                /\ "language" \in DOMAIN item
                /\ item.language \in {"en", "ru", "uk"}
                /\ ("target_audience" \in DOMAIN item)
                       <=> (Trim(call.targetAudience) # <<>>)

\* C19: detectLanguage returns uk for an empty text; for another text it
\* returns en exactly when an English pattern matched and neither character
\* pattern matched, else ru exactly when the Russian score exceeds the
\* Ukrainian score, else uk; a text of shared Cyrillic letters yields uk.
C19_LanguageDecision ==
    call.fn = "detectLanguage" =>
        LET text == call.text
            enMatched == OnlyLatinMatches(text) \/ KeywordMatches(text, "buy")
            noCyrillic == ~UkCharacterMatches(text) /\ ~RuCharacterMatches(text)
        IN  /\ call.result \in {"en", "ru", "uk"}
            /\ text = <<>> => call.result = "uk"
            /\ text # <<>> =>
                  /\ call.result = "en" <=> (enMatched /\ noCyrillic)
                  /\ call.result = "ru" <=>
                        (~(enMatched /\ noCyrillic) /\ RuScore(text) > UkScore(text))
            /\ ( /\ \E k \in 1..Len(text) : text[k] = "<de>"
                 /\ \A k \in 1..Len(text) : text[k] \in {"<de>", " "} )
                  => call.result = "uk"

\* A text of two shared Cyrillic letters was classified as uk.
C19_Witness ==
    /\ call.fn = "detectLanguage"
    /\ call.text = <<"<de>", "<de>">>
    /\ call.result = "uk"

\* The domains written to the exported file.
Exported == {call.result.domains[k] : k \in 1..Len(call.result.domains)}

\* The links of the call that belong to domain d.
LinksOf(d) ==
    {k \in 1..Len(call.currentLinkDetails) : call.currentLinkDetails[k].domain = d}

\* C20: the toxic export contains a domain exactly when some link of the
\* domain has the recommendation disavow (in any letter case) or a risk
\* score of at least 50; a disavow link counts whatever its score, also
\* without a score or with one below 30.  Each domain is listed once.
C20_ToxicExport ==
    call.fn = "downloadToxicDomains" =>
        /\ \A d \in LinkDomains \ {""} :
              d \in Exported <=>
                 \E k \in LinksOf(d) :
                    LET link == call.currentLinkDetails[k]
                    IN  \/ ToLowerCase(link.recommendation) = "disavow"
                        \/ (link.scored /\ link.risk_score >= Tenths(50, 0))
        /\ Cardinality(Exported) = Len(call.result.domains)
        /\ "" \notin Exported

\* A domain whose only link is tagged disavow without a score is exported,
\* next to a domain with a score of 50.
C20_Witness ==
    /\ call.fn = "downloadToxicDomains"
    /\ call.currentLinkDetails =
          <<[domain |-> "d1.example", recommendation |-> "disavow",
             scored |-> FALSE, risk_score |-> 0],
            [domain |-> "d2.example", recommendation |-> "",
             scored |-> TRUE, risk_score |-> Tenths(50, 0)]>>
    /\ call.result.domains = <<"d1.example", "d2.example">>

\* The stored link k of the call.
LinkAt(k) == call.currentLinkDetails[k]

\* C21 as stated: the suspicious export contains a domain exactly when some
\* link of the domain has the recommendation attention or a risk score s
\* with 30 <= s < 50.
C21_SuspiciousByScoreAlone ==
    call.fn = "downloadSuspiciousDomains" =>
        \A d \in LinkDomains \ {""} :
           d \in Exported <=>
              \E k \in LinksOf(d) :
                 \/ ToLowerCase(LinkAt(k).recommendation) = "attention"
                 \/ /\ LinkAt(k).scored
                    /\ LinkAt(k).risk_score >= Tenths(30, 0)
                    /\ LinkAt(k).risk_score < Tenths(50, 0)

\* C21, amended: the suspicious export contains a domain exactly when some
\* link of the domain has the recommendation attention, or has a risk score
\* s with 30 <= s < 50 and a recommendation other than disavow.  A score
\* below 30 without the attention tag is never exported as suspicious, and
\* a link with a score of 50 or more passes the toxic filter.
C21_SuspiciousExport ==
    call.fn = "downloadSuspiciousDomains" =>
        /\ \A d \in LinkDomains \ {""} :
              d \in Exported <=>
                 \E k \in LinksOf(d) :
                    \/ ToLowerCase(LinkAt(k).recommendation) = "attention"
                    \/ /\ ToLowerCase(LinkAt(k).recommendation) # "disavow"
                       /\ LinkAt(k).scored
                       /\ LinkAt(k).risk_score >= Tenths(30, 0)
                       /\ LinkAt(k).risk_score < Tenths(50, 0)
        /\ \A k \in 1..Len(call.currentLinkDetails) :
              (LinkAt(k).scored /\ LinkAt(k).risk_score >= Tenths(50, 0))
                 => IsToxic(LinkAt(k))

\* A disavow link with a score of 30 is left out of the suspicious export,
\* next to an attention link without a score, which is exported.
C21_Witness ==
    /\ call.fn = "downloadSuspiciousDomains"
    /\ call.currentLinkDetails =
          <<[domain |-> "d1.example", recommendation |-> "disavow",
             scored |-> TRUE, risk_score |-> Tenths(30, 0)],
            [domain |-> "d2.example", recommendation |-> "attention",
             scored |-> FALSE, risk_score |-> 0]>>
    /\ call.result.domains = <<"d2.example">>

\* The domains whose only link has a score of 49.9 and no recommendation.
JustBelowToxic ==
    {d \in LinkDomains \ {""} :
        /\ Cardinality(LinksOf(d)) = 1
        /\ \A k \in LinksOf(d) :
              /\ LinkAt(k).recommendation = ""
              /\ LinkAt(k).scored
              /\ LinkAt(k).risk_score = Tenths(49, 9)}

\* C22 as stated: a domain whose only link has risk_score = 49.9 and no
\* disavow or attention recommendation is in neither the toxic nor the
\* suspicious export.
C22_ExcludedFromBoth ==
    call.fn \in {"downloadToxicDomains", "downloadSuspiciousDomains"} =>
        \A d \in JustBelowToxic : d \notin Exported

\* C22, amended: a domain whose only link has risk_score = 49.9 and no
\* disavow or attention recommendation is excluded from the toxic export
\* and included in the suspicious export.
C22_SuspiciousNotToxic ==
    /\ call.fn = "downloadToxicDomains" =>
          \A d \in JustBelowToxic : d \notin Exported
    /\ call.fn = "downloadSuspiciousDomains" =>
          \A d \in JustBelowToxic : d \in Exported

\* The suspicious export of a single link with a score of 49.9.
C22_Witness ==
    /\ call.fn = "downloadSuspiciousDomains"
    /\ call.currentLinkDetails =
          <<[domain |-> "d1.example", recommendation |-> "",
             scored |-> TRUE, risk_score |-> Tenths(49, 9)]>>
    /\ call.result.domains = <<"d1.example">>

\* The names of the three domain-list exports.
ExportNames ==
    {"downloadToxicDomains", "downloadSuspiciousDomains",
     "downloadToxicAndSuspiciousDomains"}

\* Whether stored link k qualifies for the export that was called.
Qualifies(k) ==
    CASE call.fn = "downloadToxicDomains" -> IsToxic(LinkAt(k))
      [] call.fn = "downloadSuspiciousDomains" -> IsSuspicious(LinkAt(k))
      [] OTHER -> IsToxicOrSuspicious(LinkAt(k))

\* The qualifying links of domain d, and the first of them.
QualifyingOf(d) == {k \in LinksOf(d) : Qualifies(k)}
FirstOf(d) == CHOOSE k \in QualifyingOf(d) : \A j \in QualifyingOf(d) : k <= j

\* The qualifying domains with a name.
QualifyingDomains == {d \in LinkDomains \ {""} : QualifyingOf(d) # {}}

\* C23: each domain-list export is one comment line starting with # followed
\* by one domain:<domain> line per qualifying domain: every qualifying
\* non-empty domain once, in order of first occurrence in the link details;
\* links with an empty domain add no line; when no domain qualifies, or no
\* link details are stored, no file is produced.
C23_FileLayout ==
    call.fn \in ExportNames =>
        LET file == call.result.file
        IN  IF QualifyingDomains = {}
            THEN file = <<>> /\ call.result.alert # "none"
            ELSE /\ call.result.alert = "none"
                 /\ Len(file) = 1 + Cardinality(QualifyingDomains)
                 /\ file[1][1] = "#"
                 /\ \A n \in 2..Len(file) :
                       /\ file[n][1] = "domain:"
                       /\ file[n][2] \in QualifyingDomains
                 /\ \A m, n \in 2..Len(file) :
                       m < n => FirstOf(file[m][2]) < FirstOf(file[n][2])

\* A full list of qualifying links of which two share a domain gives a file
\* of the comment line and one domain line.
C23_Witness ==
    /\ call.fn = "downloadToxicAndSuspiciousDomains"
    /\ Len(call.currentLinkDetails) = MaxLinks
    /\ \A k \in 1..MaxLinks : Qualifies(k)
    /\ \E j, k \in 1..MaxLinks : j # k /\ LinkAt(j).domain = LinkAt(k).domain
    /\ Len(call.result.file) = 2

\* The domains of a result.
DomainSet(result) == {result.domains[k] : k \in 1..Len(result.domains)}

\* C30: for every list of link details, the set of domains exported by
\* downloadToxicAndSuspiciousDomains is the union of the sets exported by
\* downloadToxicDomains and downloadSuspiciousDomains on the same list.
C30_CombinedIsUnion ==
    call.fn = "downloadToxicAndSuspiciousDomains" =>
        Exported =
           DomainSet(downloadToxicDomains(call.currentLinkDetails))
           \cup DomainSet(downloadSuspiciousDomains(call.currentLinkDetails))

\* A list with one toxic and one suspicious domain: both are in the
\* combined export.
C30_Witness ==
    /\ call.fn = "downloadToxicAndSuspiciousDomains"
    /\ call.currentLinkDetails =
          <<[domain |-> "d1.example", recommendation |-> "disavow",
             scored |-> TRUE, risk_score |-> Tenths(30, 0)],
            [domain |-> "d2.example", recommendation |-> "",
             scored |-> TRUE, risk_score |-> Tenths(49, 9)]>>
    /\ call.result.domains = <<"d1.example", "d2.example">>

\* The number a string of decimal digits writes.
RECURSIVE Written(_)
Written(digits) ==
    IF digits = <<>> THEN 0
    ELSE 10 * Written(SubSeq(digits, 1, Len(digits) - 1))
         + DigitValue(digits[Len(digits)])

\* The delay field holds a non-negative integer.
IsConfigured(batchDelay) ==
    /\ batchDelay # <<>>
    /\ \A k \in 1..Len(batchDelay) : batchDelay[k] \in Digits

\* C24: the inter-item delay equals the configured batchDelay in seconds for
\* every configured non-negative integer value, 0 included, and is 2 seconds
\* when no value is configured.
C24_DelayAsConfigured ==
    call.fn = "delay" =>
        /\ IsConfigured(call.batchDelay) =>
              /\ call.delay = Written(call.batchDelay)
              /\ call.timeout = 1000 * Written(call.batchDelay)
        /\ call.batchDelay = <<>> => call.delay = 2

SimpleFlows == {f \in Flows : flows[f].kind = "simple"}

\* C25: in the simple meta generator, after the finally block of the batch
\* submit handler has run, the WebSocket created for that submission is no
\* longer open (it is closing or closed), whether the /generate-batch
\* response was received or failed.
C25_SocketClosedAfterFinally ==
    \A f \in SimpleFlows :
        (flows[f].pc = "done" /\ <<f, 1>> \in DOMAIN sockets)
           => sockets[<<f, 1>>].readyState \in {"CLOSING", "CLOSED"}

\* C26: in the simple meta generator a WebSocket connection error does not
\* fail the submission: when the socket of connectWebSocket reports an
\* error, the /generate-batch request is still sent.
C26_RequestDespiteSocketError ==
    \A f \in SimpleFlows :
        (flows[f].pc = "done" /\ flows[f].wsPromise = "rejected")
           => <<f, 1>> \in DOMAIN requests

\* C27: every call of connectLinkBuilderWebSocket eventually settles, for
\* every order of the socket's open, error and close events and the 5 s
\* timer, so every submission that awaits it eventually goes on to its
\* /process request.
C27_ConnectSettles ==
    \A f \in Flows :
        (flows[f].kind = "link" /\ flows[f].wsPromise = "pending")
           ~> (flows[f].wsPromise # "pending" /\ <<f, 1>> \in DOMAIN requests)

\* C28: the module-level linkBuilderWebSocket handle is cleared only on
\* behalf of the socket it refers to: a step that sets it to null is the
\* close event of that socket or a finally block that closes that socket,
\* never the late close event of an earlier submission's socket.
C28_HandleClearedForOwnSocket ==
    [][(linkBuilderWebSocket # Null /\ linkBuilderWebSocket' = Null)
          => \/ sockets'[linkBuilderWebSocket].readyState = "CLOSED"
             \/ sockets'[linkBuilderWebSocket].closeCalled]_vars

\* A step that sends chat requests: each carries a non-null session_id, the
\* one in the URL of the chat socket in use; an identifier that exists is
\* reused, and so is a socket that is open.
ChatRequestStep ==
    \A r \in DOMAIN requests' \ DOMAIN requests :
        LET q == requests'[r]
        IN  /\ q.session_id # Null
            /\ q.ws # Null
            /\ q.ws = chatWebSocket'
            /\ sockets'[q.ws].url = q.session_id
            /\ chatSessionId # Null => q.session_id = chatSessionId
            /\ (chatWebSocket # Null /\ sockets[chatWebSocket].readyState = "OPEN")
                  => q.ws = chatWebSocket

\* A step that replaces the identifier is clearChat, which drops the socket
\* with it.
ChatIdentifierStep ==
    (chatSessionId # Null /\ chatSessionId' # chatSessionId)
       => (chatSessionId' = Null /\ chatWebSocket' = Null)

\* C29 as stated: in the chat every /process request of sendMessage carries
\* a non-null session_id equal to the identifier in the URL of the chat
\* socket in use; the identifier and the socket are reused across
\* consecutive messages and are replaced, together, only by clearChat.
C29_ReplacedOnlyByClearChat ==
    [][/\ ChatRequestStep
       /\ ChatIdentifierStep
       /\ (chatWebSocket # Null /\ chatWebSocket' # chatWebSocket)
             => (chatWebSocket' = Null /\ chatSessionId' = Null)]_vars

\* C29, amended: every /process request of sendMessage carries a non-null
\* session_id equal to the identifier in the URL of the chat socket in use;
\* the identifier is reused across consecutive messages and so is the socket
\* while it is open; the identifier is replaced only by clearChat, together
\* with the socket, and a socket that is no longer open is replaced by a new
\* one for the same identifier.
C29_ReusedWhileOpen ==
    [][/\ ChatRequestStep
       /\ ChatIdentifierStep
       /\ (chatWebSocket # Null /\ chatWebSocket' # chatWebSocket)
             => \/ (chatWebSocket' = Null /\ chatSessionId' = Null)
                \/ /\ sockets[chatWebSocket].readyState # "OPEN"
                   /\ chatSessionId' = chatSessionId
                   /\ sockets'[chatWebSocket'].url = chatSessionId]_vars

\* Two consecutive messages were sent with the same identifier over the
\* same socket.
C29_Witness ==
    /\ page = "app_ua"
    /\ \A f \in {1, MaxFlows} : flows[f].kind = "chat"
    /\ <<1, 1>> \in DOMAIN requests
    /\ <<MaxFlows, 1>> \in DOMAIN requests
    /\ requests[<<1, 1>>].session_id = requests[<<MaxFlows, 1>>].session_id
    /\ requests[<<1, 1>>].ws = requests[<<MaxFlows, 1>>].ws

====
